---- MODULE Spec2Model ----
(***************************************************************************)
(* Generator state store and scheduler of the autocomplete engine          *)
(* (createGeneratorState): triggerGenerators, triggerGenerator,            *)
(* updateGenerator and updateGeneratorOnResult, with the promises and      *)
(* debounce timers they leave behind.                                      *)
(*                                                                         *)
(* A GeneratorState object is a record with an id field: the id is the     *)
(* object's identity (s === generatorState compares ids).  Objects are     *)
(* never mutated in place, so a record value stands for the object.        *)
(***************************************************************************)
EXTENDS Integers, Sequences, FiniteSets, TLC

VARIABLES
    generatorStates,  \* store: state.generatorStates, a sequence of GeneratorState objects
    parserResult,     \* store: state.parserResult, [currentArg, searchTerm]
    requests,         \* every promise a generator back-end returned, in call order
    timers,           \* pending sleep(...).then(...) callbacks, in scheduling order
    nextId,           \* identity of the next object allocated
    allCaches,        \* the cache registry: every Map createCache returned, in creation order
    last              \* the step just taken (history, read by the properties only)

vars == <<generatorStates, parserResult, requests, timers, nextId, allCaches, last>>

----------------------------------------------------------------------------
(* Bounds *)

MaxObjs == 5          \* GeneratorState objects allocated in one behaviour
MaxRequests == 3      \* back-end invocations in one behaviour
TickStep == 100       \* the longest time that passes in one step, in ms
MaxCaches == 4        \* caches registered in one behaviour

(* Program constant: the default debounce delay *)
DefaultDelay == 200

----------------------------------------------------------------------------
(* Values *)

Max(S) == CHOOSE x \in S : \A y \in S : y <= x
Min(S) == CHOOSE x \in S : \A y \in S : x <= y

NoRequest == 0
NoObject == 0

\* search terms: sequences of characters
TermEmpty == <<>>
TermA == <<"a">>
Terms == {TermEmpty, TermA}

\* Fig.Generator["trigger"]: undefined | string | function | {on: ...}
TriggerUndefined ==
    [type |-> "undefined", s |-> <<>>, fn |-> "", on |-> "", length |-> 0, strings |-> <<>>]
TriggerString(s) ==
    [type |-> "string", s |-> s, fn |-> "", on |-> "", length |-> 0, strings |-> <<>>]
TriggerFunction(fn) ==
    [type |-> "function", s |-> <<>>, fn |-> fn, on |-> "", length |-> 0, strings |-> <<>>]
TriggerThreshold(n) ==
    [type |-> "object", s |-> <<>>, fn |-> "", on |-> "threshold", length |-> n, strings |-> <<>>]
TriggerMatch(strings) ==
    [type |-> "object", s |-> <<>>, fn |-> "", on |-> "match", length |-> 0, strings |-> strings]
\* {on: "match", string: s} with one literal: strings becomes [trigger.string]
TriggerMatchLiteral(s) == TriggerMatch(<<s>>)
TriggerOn(on) ==
    [type |-> "object", s |-> <<>>, fn |-> "", on |-> on, length |-> 0, strings |-> <<>>]

\* Fig.Generator descriptors; template/script say whether the field is set
GenTemplate ==
    [id |-> 1, template |-> TRUE, script |-> FALSE,
     trigger |-> TriggerUndefined, filterTemplateSuggestions |-> FALSE]
GenCustom ==
    [id |-> 2, template |-> FALSE, script |-> FALSE,
     trigger |-> TriggerFunction("firstLonger"), filterTemplateSuggestions |-> TRUE]
GenScript ==
    [id |-> 3, template |-> FALSE, script |-> TRUE,
     trigger |-> TriggerThreshold(0), filterTemplateSuggestions |-> FALSE]

\* Fig.Arg["debounce"]: undefined | boolean | number
DebounceUndefined == [kind |-> "undefined", b |-> FALSE, n |-> 0]
DebounceBoolean(b) == [kind |-> "boolean", b |-> b, n |-> 0]
DebounceNumber(n) == [kind |-> "number", b |-> FALSE, n |-> n]

\* arguments of the spec being completed; id is the object's identity
NoArg ==
    [id |-> 0, generators |-> <<>>, debounce |-> DebounceUndefined, isDangerous |-> FALSE]
ArgPlain ==
    [id |-> 1, generators |-> <<GenTemplate, GenCustom>>,
     debounce |-> DebounceUndefined, isDangerous |-> FALSE]
ArgDebounced ==
    [id |-> 2, generators |-> <<GenScript>>,
     debounce |-> DebounceNumber(100), isDangerous |-> TRUE]
Args == {NoArg, ArgPlain, ArgDebounced}

\* an argument that declares no generators
ArgNoGenerators ==
    [id |-> 4, generators |-> <<>>, debounce |-> DebounceUndefined, isDangerous |-> FALSE]

\* arguments with one generator each, one per trigger policy, and the search
\* terms the policies are exercised on
GenAbsent ==
    [id |-> 11, template |-> TRUE, script |-> FALSE,
     trigger |-> TriggerUndefined, filterTemplateSuggestions |-> FALSE]
GenSlash ==
    [id |-> 12, template |-> TRUE, script |-> FALSE,
     trigger |-> TriggerString(<<"/">>), filterTemplateSuggestions |-> FALSE]
GenPredicate ==
    [id |-> 13, template |-> TRUE, script |-> FALSE,
     trigger |-> TriggerFunction("firstLonger"), filterTemplateSuggestions |-> FALSE]
ArgAbsent ==
    [id |-> 11, generators |-> <<GenAbsent>>,
     debounce |-> DebounceUndefined, isDangerous |-> FALSE]
ArgAbsentDebounced ==
    [id |-> 12, generators |-> <<GenAbsent>>,
     debounce |-> DebounceBoolean(TRUE), isDangerous |-> FALSE]
ArgSlash ==
    [id |-> 13, generators |-> <<GenSlash>>,
     debounce |-> DebounceUndefined, isDangerous |-> FALSE]
ArgPredicate ==
    [id |-> 14, generators |-> <<GenPredicate>>,
     debounce |-> DebounceUndefined, isDangerous |-> FALSE]
GenThrows ==
    [id |-> 14, template |-> TRUE, script |-> FALSE,
     trigger |-> TriggerFunction("throws"), filterTemplateSuggestions |-> FALSE]
GenThreshold ==
    [id |-> 15, template |-> TRUE, script |-> FALSE,
     trigger |-> TriggerThreshold(3), filterTemplateSuggestions |-> FALSE]
GenMatchSet ==
    [id |-> 16, template |-> TRUE, script |-> FALSE,
     trigger |-> TriggerMatch(<<<<"a", "d", "d">>, <<"r", "e", "m", "o", "v", "e">>>>),
     filterTemplateSuggestions |-> FALSE]
GenMatchLiteral ==
    [id |-> 17, template |-> TRUE, script |-> FALSE,
     trigger |-> TriggerMatchLiteral(<<"a", "d", "d">>), filterTemplateSuggestions |-> FALSE]
GenChange ==
    [id |-> 18, template |-> TRUE, script |-> FALSE,
     trigger |-> TriggerOn("change"), filterTemplateSuggestions |-> FALSE]
GenOther ==
    [id |-> 19, template |-> TRUE, script |-> FALSE,
     trigger |-> TriggerOn("other"), filterTemplateSuggestions |-> FALSE]
ArgThrows ==
    [id |-> 15, generators |-> <<GenThrows, GenSlash>>,
     debounce |-> DebounceUndefined, isDangerous |-> FALSE]
ArgThreshold ==
    [id |-> 16, generators |-> <<GenThreshold>>,
     debounce |-> DebounceUndefined, isDangerous |-> FALSE]
ArgMatchSet ==
    [id |-> 17, generators |-> <<GenMatchSet>>,
     debounce |-> DebounceUndefined, isDangerous |-> FALSE]
ArgMatchLiteral ==
    [id |-> 18, generators |-> <<GenMatchLiteral>>,
     debounce |-> DebounceUndefined, isDangerous |-> FALSE]
ArgChange ==
    [id |-> 19, generators |-> <<GenChange>>,
     debounce |-> DebounceUndefined, isDangerous |-> FALSE]
ArgOther ==
    [id |-> 20, generators |-> <<GenOther>>,
     debounce |-> DebounceUndefined, isDangerous |-> FALSE]
PolicyArgs ==
    {ArgAbsent, ArgAbsentDebounced, ArgSlash, ArgPredicate, ArgThrows, ArgThreshold,
     ArgChange, ArgOther}
PolicyTerms ==
    {<<>>, <<"a">>, <<"/">>, <<"a", "b">>, <<"a", "/", "b">>,
     <<"a", "/", "b", "c">>, <<"a", "/", "b", "/", "c">>}
MatchArgs == {ArgMatchSet, ArgMatchLiteral}
MatchTerms == {<<"x", "x">>, <<"a", "d", "d">>, <<"r", "e", "m", "o", "v", "e">>}

\* arguments by the debounce they declare: a number that is zero, a negative
\* number, besides the positive number of ArgDebounced and the true of
\* ArgAbsentDebounced
ArgDebounceZero ==
    [id |-> 21, generators |-> <<GenChange>>,
     debounce |-> DebounceNumber(0), isDangerous |-> FALSE]
ArgDebounceNegative ==
    [id |-> 22, generators |-> <<GenChange>>,
     debounce |-> DebounceNumber(-1), isDangerous |-> FALSE]
DebounceArgs == {ArgDebounced, ArgAbsentDebounced, ArgDebounceZero, ArgDebounceNegative}

\* the argument and term pairs the policies are exercised on
PolicyInputs == (PolicyArgs \X PolicyTerms) \cup (MatchArgs \X MatchTerms)

\* what a back-end resolves with: Fig.Suggestion lists; tmpl is the template
\* meta data isTemplateSuggestion looks for, generator the back-reference
NoGenerator == 0
SuggestionX == [name |-> "x", tmpl |-> TRUE, generator |-> NoGenerator]
SuggestionY == [name |-> "y", tmpl |-> FALSE, generator |-> NoGenerator]
RawResults == {<<>>, <<SuggestionX, SuggestionY>>, <<SuggestionY>>}

\* an argument with two custom generators, with and without the filter flag,
\* and the lists their custom functions resolve with
GenCustomPlain ==
    [id |-> 4, template |-> FALSE, script |-> FALSE,
     trigger |-> TriggerFunction("never"), filterTemplateSuggestions |-> FALSE]
ArgFilter ==
    [id |-> 3, generators |-> <<GenCustom, GenCustomPlain>>,
     debounce |-> DebounceUndefined, isDangerous |-> FALSE]
FilterResults ==
    {<<>>, <<SuggestionX>>, <<SuggestionY>>, <<SuggestionX, SuggestionY>>,
     <<SuggestionY, SuggestionX>>, <<SuggestionX, SuggestionY, SuggestionX>>}

----------------------------------------------------------------------------
(* Trigger decision: triggerGenerators, lines 130-178 *)

Truthy(debounce) ==
    \/ debounce.kind = "boolean" /\ debounce.b
    \/ debounce.kind = "number" /\ debounce.n # 0

\* String.prototype.lastIndexOf: 0-based index of the last occurrence, or -1
LastIndexOf(a, s) ==
    LET hits == {i \in 0..(Len(a) - Len(s)) : SubSeq(a, i + 1, i + Len(s)) = s}
    IN IF hits = {} THEN -1 ELSE Max(hits)

\* Array.prototype.findIndex(x => x === a): 0-based index of the first match, or -1
FindIndexOfString(strings, a) ==
    LET hits == {i \in 1..Len(strings) : strings[i] = a}
    IN IF hits = {} THEN -1 ELSE Min(hits) - 1

\* the predicates a spec may supply as trigger; "throw" is a raised exception
ApplyTriggerFunction(fn, a, b) ==
    CASE fn = "never" -> "false"
      [] fn = "always" -> "true"
      [] fn = "throws" -> "throw"
      [] fn = "firstLonger" -> IF Len(a) > Len(b) THEN "true" ELSE "false"
      [] OTHER -> "false"

\* a triggerFn whose string policy compares the first occurrences
TriggerFnFirstIndex(trigger, a, b) ==
    LET IndexOf(t) ==
            LET hits == {i \in 0..(Len(t) - Len(trigger.s)) :
                            SubSeq(t, i + 1, i + Len(trigger.s)) = trigger.s}
            IN IF hits = {} THEN -1 ELSE Min(hits)
    IN CASE trigger.type = "string" ->
               IF IndexOf(a) # IndexOf(b) THEN "true" ELSE "false"
         [] trigger.type = "function" -> ApplyTriggerFunction(trigger.fn, a, b)
         [] OTHER -> IF a # b THEN "true" ELSE "false"

\* a triggerFn that hands the previous term to the predicate first
TriggerFnPreviousFirst(trigger, a, b) ==
    CASE trigger.type = "string" ->
            IF LastIndexOf(a, trigger.s) # LastIndexOf(b, trigger.s) THEN "true" ELSE "false"
      [] trigger.type = "function" -> ApplyTriggerFunction(trigger.fn, b, a)
      [] OTHER -> IF a # b THEN "true" ELSE "false"

\* a triggerFn whose threshold policy is level-sensitive
TriggerFnThresholdLevel(trigger, a, b) ==
    CASE trigger.type = "string" ->
            IF LastIndexOf(a, trigger.s) # LastIndexOf(b, trigger.s) THEN "true" ELSE "false"
      [] trigger.type = "function" -> ApplyTriggerFunction(trigger.fn, a, b)
      [] trigger.type = "object" /\ trigger.on = "threshold" ->
            IF Len(a) > trigger.length THEN "true" ELSE "false"
      [] OTHER -> IF a # b THEN "true" ELSE "false"

\* a triggerFn whose threshold policy fires on reaching the length
TriggerFnThresholdReached(trigger, a, b) ==
    CASE trigger.type = "string" ->
            IF LastIndexOf(a, trigger.s) # LastIndexOf(b, trigger.s) THEN "true" ELSE "false"
      [] trigger.type = "function" -> ApplyTriggerFunction(trigger.fn, a, b)
      [] trigger.type = "object" /\ trigger.on = "threshold" ->
            IF Len(a) >= trigger.length /\ ~(Len(b) >= trigger.length) THEN "true" ELSE "false"
      [] OTHER -> IF a # b THEN "true" ELSE "false"

\* a triggerFn whose match policy compares membership instead of position
TriggerFnMatchMembership(trigger, a, b) ==
    CASE trigger.type = "string" ->
            IF LastIndexOf(a, trigger.s) # LastIndexOf(b, trigger.s) THEN "true" ELSE "false"
      [] trigger.type = "function" -> ApplyTriggerFunction(trigger.fn, a, b)
      [] trigger.type = "object" /\ trigger.on = "match" ->
            IF (FindIndexOfString(trigger.strings, a) = -1)
                  # (FindIndexOfString(trigger.strings, b) = -1)
            THEN "true" ELSE "false"
      [] OTHER -> IF a # b THEN "true" ELSE "false"

\* a triggerFn that knows the policy kinds threshold, match and change only
TriggerFnNoDefault(trigger, a, b) ==
    CASE trigger.type = "string" ->
            IF LastIndexOf(a, trigger.s) # LastIndexOf(b, trigger.s) THEN "true" ELSE "false"
      [] trigger.type = "function" -> ApplyTriggerFunction(trigger.fn, a, b)
      [] trigger.type = "object" /\ trigger.on = "threshold" ->
            IF Len(a) > trigger.length /\ ~(Len(b) > trigger.length) THEN "true" ELSE "false"
      [] trigger.type = "object" /\ trigger.on = "match" ->
            IF FindIndexOfString(trigger.strings, a) # FindIndexOfString(trigger.strings, b)
            THEN "true" ELSE "false"
      [] trigger.type = "object" /\ trigger.on = "change" ->
            IF a # b THEN "true" ELSE "false"
      [] OTHER -> "false"

\* triggerFn(a, b), as built from the trigger policy
TriggerFn(trigger, a, b) ==
    CASE trigger.type = "string" ->
            IF LastIndexOf(a, trigger.s) # LastIndexOf(b, trigger.s) THEN "true" ELSE "false"
      [] trigger.type = "function" -> ApplyTriggerFunction(trigger.fn, a, b)
      [] trigger.type = "object" /\ trigger.on = "threshold" ->
            IF Len(a) > trigger.length /\ ~(Len(b) > trigger.length) THEN "true" ELSE "false"
      [] trigger.type = "object" /\ trigger.on = "match" ->
            IF FindIndexOfString(trigger.strings, a) # FindIndexOfString(trigger.strings, b)
            THEN "true" ELSE "false"
      [] OTHER -> IF a # b THEN "true" ELSE "false"

\* a shouldTrigger that takes an absent policy for the policy of a changed term
ShouldTriggerAbsentOnChange(hasPrevious, currentArg, previousArg, trigger, searchTerm, previousSearchTerm) ==
    IF ~hasPrevious \/ currentArg.id # previousArg.id THEN TRUE
    ELSE IF trigger.type = "undefined"
         THEN Truthy(currentArg.debounce) \/ searchTerm # previousSearchTerm
    ELSE LET r == TriggerFn(trigger, searchTerm, previousSearchTerm)
         IN r = "true" \/ r = "throw"

\* a shouldTrigger that never triggers a slot with an absent policy
ShouldTriggerAbsentNever(hasPrevious, currentArg, previousArg, trigger, searchTerm, previousSearchTerm) ==
    IF ~hasPrevious \/ currentArg.id # previousArg.id THEN TRUE
    ELSE IF trigger.type = "undefined" THEN FALSE
    ELSE LET r == TriggerFn(trigger, searchTerm, previousSearchTerm)
         IN r = "true" \/ r = "throw"

\* a shouldTrigger that takes a raised exception for a false decision
ShouldTriggerFailClosed(hasPrevious, currentArg, previousArg, trigger, searchTerm, previousSearchTerm) ==
    IF ~hasPrevious \/ currentArg.id # previousArg.id THEN TRUE
    ELSE IF trigger.type = "undefined" THEN Truthy(currentArg.debounce)
    ELSE TriggerFn(trigger, searchTerm, previousSearchTerm) = "true"

\* a shouldTrigger without the comparison of the arguments
ShouldTriggerSameArg(hasPrevious, currentArg, previousArg, trigger, searchTerm, previousSearchTerm) ==
    IF ~hasPrevious THEN TRUE
    ELSE IF trigger.type = "undefined" THEN Truthy(currentArg.debounce)
    ELSE LET r == TriggerFn(trigger, searchTerm, previousSearchTerm)
         IN r = "true" \/ r = "throw"

\* a shouldTrigger that always runs the generators of a dangerous argument
ShouldTriggerDangerous(hasPrevious, currentArg, previousArg, trigger, searchTerm, previousSearchTerm) ==
    IF ~hasPrevious \/ currentArg.id # previousArg.id \/ currentArg.isDangerous THEN TRUE
    ELSE IF trigger.type = "undefined" THEN Truthy(currentArg.debounce)
    ELSE LET r == TriggerFn(trigger, searchTerm, previousSearchTerm)
         IN r = "true" \/ r = "throw"

\* shouldTrigger for one slot; hasPrevious: state.generatorStates[index] is defined
ShouldTrigger(hasPrevious, currentArg, previousArg, trigger, searchTerm, previousSearchTerm) ==
    IF ~hasPrevious \/ currentArg.id # previousArg.id THEN TRUE
    ELSE IF trigger.type = "undefined" THEN Truthy(currentArg.debounce)
    ELSE LET r == TriggerFn(trigger, searchTerm, previousSearchTerm)
         IN r = "true" \/ r = "throw"

\* the delay handed to sleep() for a debounced argument
DebounceDelay(debounce) ==
    IF debounce.kind = "number" /\ debounce.n > 0 THEN debounce.n ELSE DefaultDelay

----------------------------------------------------------------------------
(* Context *)

\* getGeneratorContext: the fields that come from the parser result.  The
\* shell context, tokens and annotations are copied from the store and the
\* parser and are read by the back-ends only; GetGeneratorContextOf below
\* builds the whole context.
GetGeneratorContext(pr) ==
    [isDangerous |-> pr.currentArg.isDangerous,
     searchTerm |-> pr.searchTerm]

\* a value that is not there (undefined, null)
Undefined == "<undefined>"

\* x || "" for a string that may be missing
OrEmptyString(x) == IF x = Undefined \/ x = "" THEN "" ELSE x

\* the tokens of the command line and the parser's annotations, at most
\* MaxTokens of each; a token has its text and where it starts
MaxTokens == 3
TokenTexts == <<"git", "commit", "-m", "msg", "--amend">>
TokenAt(k) == [text |-> TokenTexts[((k - 1) % Len(TokenTexts)) + 1], start |-> 4 * (k - 1)]
AnnotationAt(k) == [text |-> TokenAt(k).text, type |-> IF k = 1 THEN "command" ELSE "option"]
Tokens(n) == [k \in 1..n |-> TokenAt(k)]
Annotations(n) == [k \in 1..n |-> AnnotationAt(k)]
Reversed(seq) == [k \in 1..Len(seq) |-> seq[Len(seq) + 1 - k]]

\* command?.tokens ?? []
NoCommand == [defined |-> FALSE, tokens |-> <<>>]
Command(tokens) == [defined |-> TRUE, tokens |-> tokens]
CommandTokens(command) == IF command.defined THEN command.tokens ELSE <<>>

\* a slice that keeps what is before the index
SliceBefore(seq, start) == SubSeq(seq, 1, Min({start, Len(seq)}))

\* Array.prototype.slice(start): a negative start counts from the end
Slice(seq, start) ==
    LET from == IF start < 0 THEN Max({Len(seq) + start, 0}) ELSE Min({start, Len(seq)})
    IN SubSeq(seq, from + 1, Len(seq))

\* shellContextSelector
ShellContextSelector(figState) ==
    [currentWorkingDirectory |-> OrEmptyString(figState.cwd),
     currentProcess |-> OrEmptyString(figState.processUserIsIn),
     environmentVariables |-> figState.environmentVariables,
     sshPrefix |-> ""]

\* getGeneratorContext(state), state the store's state with the parser result
\* of the re-evaluation: [figState, command, parserResult]
GetGeneratorContextOf(state) ==
    LET shell == ShellContextSelector(state.figState)
        pr == state.parserResult
        tokens == CommandTokens(state.command)
        sliced == Slice(tokens, pr.commandIndex)
    IN [currentWorkingDirectory |-> shell.currentWorkingDirectory,
        currentProcess |-> shell.currentProcess,
        environmentVariables |-> shell.environmentVariables,
        sshPrefix |-> shell.sshPrefix,
        annotations |-> Slice(pr.annotations, pr.commandIndex),
        tokenArray |-> [k \in 1..Len(sliced) |-> sliced[k].text],
        isDangerous |-> pr.currentArg.isDangerous,
        searchTerm |-> pr.searchTerm]

----------------------------------------------------------------------------
(* The closures of createGeneratorState.  w is what they read and write:    *)
(* [generatorStates, requests, timers, nextId].                             *)

\* a findIndex keyed by the index the generator has in its argument alone
FindIndexByPosition(states, generatorState) ==
    LET hits == {i \in 1..Len(states) :
                    \E arg \in Args : /\ i <= Len(arg.generators)
                                      /\ arg.generators[i].id = generatorState.generator.id}
    IN IF hits = {} THEN 0 ELSE Min(hits)

\* a findIndex that compares the generator of the slot instead of the object
FindIndexByGenerator(states, generatorState) ==
    LET hits == {i \in 1..Len(states) : states[i].generator.id = generatorState.generator.id}
    IN IF hits = {} THEN 0 ELSE Min(hits)

\* generatorStates.findIndex((s) => s === generatorState), 1-based, 0 for -1
FindIndex(states, generatorState) ==
    LET hits == {i \in 1..Len(states) : states[i].id = generatorState.id}
    IN IF hits = {} THEN 0 ELSE Min(hits)

\* updateGeneratorOnResult: request.then(...) when loading with a request;
\* returns its argument, so only the registration shows in w
UpdateGeneratorOnResult(w, generatorState) ==
    IF generatorState.loading /\ generatorState.request # NoRequest
    THEN [w EXCEPT !.requests[generatorState.request].thens = Append(@, generatorState)]
    ELSE w

\* a choice of back-end that looks at the script before the template
BackendScriptFirst(generator) ==
    IF generator.script THEN "script"
    ELSE IF generator.template THEN "template"
    ELSE "custom"

\* the back-end triggerGenerator calls for a descriptor
Backend(generator) ==
    IF generator.template THEN "template"
    ELSE IF generator.script THEN "script"
    ELSE "custom"

\* a triggerGenerator that runs with the context of the store as it is now
TriggerGeneratorLiveContext(w, currentState) ==
    LET request == Len(w.requests) + 1
        context == GetGeneratorContext(parserResult)
        promise == [backend |-> Backend(currentState.generator),
                    generator |-> currentState.generator.id,
                    context |-> context,
                    filtered |-> /\ Backend(currentState.generator) = "custom"
                                 /\ currentState.generator.filterTemplateSuggestions,
                    status |-> "pending",
                    thens |-> <<>>]
        triggered == [currentState EXCEPT !.id = w.nextId, !.loading = TRUE,
                                          !.request = request, !.context = context]
        w1 == [w EXCEPT !.requests = Append(@, promise), !.nextId = @ + 1]
    IN [w |-> [w1 EXCEPT !.requests[request].thens = Append(@, triggered)],
        state |-> triggered]

\* a triggerGenerator that marks the state loading and calls no back-end
TriggerGeneratorNoCall(w, currentState) ==
    LET triggered == [currentState EXCEPT !.id = w.nextId, !.loading = TRUE]
    IN [w |-> [w EXCEPT !.nextId = @ + 1], state |-> triggered]

\* triggerGenerator: calls the back-end and returns
\* updateGeneratorOnResult({...currentState, loading: true, request})
TriggerGenerator(w, currentState) ==
    LET request == Len(w.requests) + 1
        promise == [backend |-> Backend(currentState.generator),
                    generator |-> currentState.generator.id,
                    context |-> currentState.context,
                    filtered |-> /\ Backend(currentState.generator) = "custom"
                                 /\ currentState.generator.filterTemplateSuggestions,
                    status |-> "pending",
                    thens |-> <<>>]
        triggered == [currentState EXCEPT !.id = w.nextId, !.loading = TRUE, !.request = request]
        w1 == [w EXCEPT !.requests = Append(@, promise), !.nextId = @ + 1]
    IN [w |-> UpdateGeneratorOnResult(w1, triggered), state |-> triggered]

\* getUpdate closures: the result of a resolved request, or getTriggeredState
UpdateResult(result) == [type |-> "result", result |-> result]
UpdateTriggered == [type |-> "triggered", result |-> <<>>]

\* an updateGenerator that stores the update without updateGeneratorOnResult
UpdateGeneratorNoRearm(w, generatorState, getUpdate) ==
    LET index == FindIndex(w.generatorStates, generatorState)
    IN IF index = 0 THEN w
       ELSE IF getUpdate.type = "result"
       THEN LET updated == [generatorState EXCEPT !.id = w.nextId,
                                                  !.loading = FALSE,
                                                  !.result = getUpdate.result]
            IN [w EXCEPT !.generatorStates[index] = updated, !.nextId = @ + 1]
       ELSE LET t == TriggerGenerator(w, generatorState)
                updated == [t.state EXCEPT !.id = t.w.nextId]
            IN [t.w EXCEPT !.generatorStates[index] = updated, !.nextId = @ + 1]

\* updateGenerator(generatorState, getUpdate)
UpdateGenerator(w, generatorState, getUpdate) ==
    LET index == FindIndex(w.generatorStates, generatorState)
    IN IF index = 0 THEN w
       ELSE IF getUpdate.type = "result"
       THEN LET updated == [generatorState EXCEPT !.id = w.nextId,
                                                  !.loading = FALSE,
                                                  !.result = getUpdate.result]
                w1 == [w EXCEPT !.generatorStates[index] = updated, !.nextId = @ + 1]
            IN UpdateGeneratorOnResult(w1, updated)
       ELSE LET t == TriggerGenerator(w, generatorState)
                updated == [t.state EXCEPT !.id = t.w.nextId]
                w1 == [t.w EXCEPT !.generatorStates[index] = updated, !.nextId = @ + 1]
            IN UpdateGeneratorOnResult(w1, updated)

\* a map that keeps the suggestions as they came
TagSuggestionsNot(result, generator) == result

\* result.map((suggestion) => ({ ...suggestion, generator }))
TagSuggestions(result, generator) ==
    [i \in 1..Len(result) |-> [result[i] EXCEPT !.generator = generator.id]]

\* the request.then callbacks of one resolved request, in registration order
RECURSIVE RunThens(_, _, _)
RunThens(w, thens, value) ==
    IF thens = <<>> THEN w
    ELSE LET generatorState == Head(thens)
             w1 == UpdateGenerator(w, generatorState,
                       UpdateResult(TagSuggestions(value, generatorState.generator)))
         IN RunThens(w1, Tail(thens), value)

\* generator.filterTemplateSuggestions of the descriptors here: keeps the
\* template suggestions
FilterTemplateSuggestions(suggestions) ==
    SelectSeq(suggestions, LAMBDA x : x.tmpl)

\* a wrapper that filters every list of a flagged generator
RequestValueAlwaysFiltered(filtered, suggestions) ==
    IF filtered THEN FilterTemplateSuggestions(suggestions) ELSE suggestions

\* what the request resolves with when the back-end resolves with suggestions:
\* the async wrapper of triggerGenerator for filterTemplateSuggestions
RequestValue(filtered, suggestions) ==
    IF filtered /\ suggestions # <<>> /\ suggestions[1].tmpl
    THEN FilterTemplateSuggestions(suggestions)
    ELSE suggestions

\* a slot that does not trigger and returns its previous state emptied
CarryForwardEmptied(previousStates, index) ==
    [previousStates[index] EXCEPT !.result = <<>>]

\* a slot that does not trigger and returns a copy of its previous state
CarryForwardCopied(previousStates, index) ==
    [previousStates[index] EXCEPT !.id = NoObject]

\* if (!shouldTrigger) return previousGeneratorState
CarryForward(previousStates, index) == previousStates[index]

\* one slot of generators.map in triggerGenerators; returns w and the slot's state
TriggerSlot(w, previousStates, previousResult, pr, context, index) ==
    LET generator == pr.currentArg.generators[index]
        hasPrevious == index <= Len(previousStates)
        shouldTrigger == ShouldTrigger(hasPrevious, pr.currentArg, previousResult.currentArg,
                                       generator.trigger, pr.searchTerm,
                                       previousResult.searchTerm)
        result == IF hasPrevious THEN previousStates[index].result ELSE <<>>
        \* { generator, context, result, loading: true }
        generatorState == [id |-> w.nextId, generator |-> generator, context |-> context,
                           result |-> result, loading |-> TRUE, request |-> NoRequest]
    IN IF ~shouldTrigger THEN [w |-> w, state |-> CarryForward(previousStates, index)]
       ELSE IF Truthy(pr.currentArg.debounce)
       THEN [w |-> [w EXCEPT !.nextId = @ + 1,
                             !.timers =
                       Append(@, [state |-> generatorState,
                                  delay |-> DebounceDelay(pr.currentArg.debounce),
                                  elapsed |-> 0])],
             state |-> generatorState]
       \* without debounce generatorState is only spread into the triggered
       \* state: nothing keeps or compares it, and it takes no identity
       ELSE TriggerGenerator(w, [generatorState EXCEPT !.id = NoObject])

\* a triggerGenerators that returns the states of the slots that triggered only
RECURSIVE TriggerSlotsTriggered(_, _, _, _, _, _, _)
TriggerSlotsTriggered(w, previousStates, previousResult, pr, context, index, out) ==
    IF index > Len(pr.currentArg.generators) THEN [w |-> w, states |-> out]
    ELSE LET slot == TriggerSlot(w, previousStates, previousResult, pr, context, index)
         IN TriggerSlotsTriggered(slot.w, previousStates, previousResult, pr, context,
                                  index + 1,
                                  IF \E i \in 1..Len(previousStates) :
                                         previousStates[i].id = slot.state.id
                                  THEN out ELSE Append(out, slot.state))

\* triggerGenerators(parserResult): [w, states], states the list returned
RECURSIVE TriggerSlots(_, _, _, _, _, _, _)
TriggerSlots(w, previousStates, previousResult, pr, context, index, out) ==
    IF index > Len(pr.currentArg.generators) THEN [w |-> w, states |-> out]
    ELSE LET slot == TriggerSlot(w, previousStates, previousResult, pr, context, index)
         IN TriggerSlots(slot.w, previousStates, previousResult, pr, context,
                         index + 1, Append(out, slot.state))

TriggerGenerators(w, previousResult, pr) ==
    TriggerSlots(w, w.generatorStates, previousResult, pr,
                 GetGeneratorContext(pr), 1, <<>>)

----------------------------------------------------------------------------
(* Cache registry: createCache and resetCaches.  A Map is a function on the  *)
(* keys, NoEntry for a key the Map does not have; a Map object's identity is *)
(* its index in allCaches.                                                   *)

CacheKeys == {"k1", "k2"}
CacheValues == {"v1", "v2"}
NoEntry == "undefined"

\* new Map<string, T>()
NewCache == [key \in CacheKeys |-> NoEntry]

\* a createCache that does not register the Map it returns
CreateCacheUnregistered(caches) == caches

\* createCache: allCaches.push(cache); the returned cache is the last one
CreateCacheIn(caches) == Append(caches, NewCache)

\* a resetCaches that empties the registry itself
ResetCachesDropsAll(caches) == <<>>

\* resetCaches: allCaches.forEach((cache) => cache.clear())
ResetCachesIn(caches) == [i \in 1..Len(caches) |-> NewCache]

\* cache.set(key, value) by the holder of a cache
CacheSetIn(caches, cache, key, value) == [caches EXCEPT ![cache][key] = value]

\* the registry once the module is loaded: specCache and generateSpecCache
ModuleCaches == CreateCacheIn(CreateCacheIn(<<>>))

----------------------------------------------------------------------------
(* State machine *)

World == [generatorStates |-> generatorStates, requests |-> requests,
          timers |-> timers, nextId |-> nextId]

\* the objects and the promises of w are within what is explored: at most
\* objs state objects, at most MaxRequests requests
Within(objs, w) ==
    /\ w.nextId <= objs + 1
    /\ Len(w.requests) <= MaxRequests

WithinBounds(w) == Within(MaxObjs, w)

\* history only: whether an object with this identity is in the list
Present(states, obj) == \E i \in 1..Len(states) : states[i].id = obj.id

\* history only: the slots of a returned list that hold a new object
Fresh(states, returned) == {i \in 1..Len(returned) : ~Present(states, returned[i])}

Step(op, request, obj, found, value, fresh, raw) ==
    [op |-> op, request |-> request, obj |-> obj, found |-> found, value |-> value,
     fresh |-> fresh, raw |-> raw]

Init ==
    /\ generatorStates = <<>>
    /\ parserResult = [currentArg |-> NoArg, searchTerm |-> TermEmpty]
    /\ requests = <<>>
    /\ timers = <<>>
    /\ nextId = 1
    /\ allCaches = ModuleCaches
    /\ last = Step("Init", NoRequest, NoObject, FALSE, <<>>, {}, <<>>)

\* the store taking the list triggerGenerators returned, with the parser result
CommitParserResult(pr, states) ==
    /\ parserResult' = pr
    /\ generatorStates' = states

\* a re-evaluation: the parser produced pr, triggerGenerators(pr) runs on the
\* store as it is and the store takes its result
EvaluateWithin(objs, currentArg, searchTerm) ==
    LET pr == [currentArg |-> currentArg, searchTerm |-> searchTerm]
        t == TriggerGenerators(World, parserResult, pr)
    IN /\ Within(objs, t.w)
       /\ CommitParserResult(pr, t.states)
       /\ requests' = t.w.requests
       /\ timers' = t.w.timers
       /\ nextId' = t.w.nextId
       /\ last' = Step("Evaluate", NoRequest, NoObject, FALSE, <<>>,
                       Fresh(generatorStates, t.states), <<>>)
       /\ UNCHANGED allCaches

Evaluate(currentArg, searchTerm) == EvaluateWithin(MaxObjs, currentArg, searchTerm)

\* timers that fire without waiting for their delay
DueTimersAtOnce == 1..Len(timers)

\* the timers whose delay has elapsed; the earliest scheduled one fires first
DueTimers == {i \in 1..Len(timers) : timers[i].elapsed >= timers[i].delay}

RemoveAt(seq, i) == SubSeq(seq, 1, i - 1) \o SubSeq(seq, i + 1, Len(seq))

\* sleep(delay).then(() => updateGenerator(generatorState, getTriggeredState))
TimerFireWithin(objs) ==
    /\ DueTimers # {}
    /\ LET i == Min(DueTimers)
           generatorState == timers[i].state
           w == UpdateGenerator([World EXCEPT !.timers = RemoveAt(@, i)],
                                generatorState, UpdateTriggered)
       IN /\ Within(objs, w)
          /\ generatorStates' = w.generatorStates
          /\ requests' = w.requests
          /\ timers' = w.timers
          /\ nextId' = w.nextId
          /\ last' = Step("TimerFire", NoRequest, generatorState.id,
                          Present(generatorStates, generatorState), <<>>, {}, <<>>)
    /\ UNCHANGED <<parserResult, allCaches>>

TimerFire == TimerFireWithin(MaxObjs)

\* a back-end's promise resolves with suggestions: its then-callbacks run and
\* are dropped
ResolveWithin(objs, request, suggestions) ==
    /\ request \in 1..Len(requests)
    /\ requests[request].status = "pending"
    /\ LET value == RequestValue(requests[request].filtered, suggestions)
           thens == requests[request].thens
           w0 == [World EXCEPT !.requests[request].status = "resolved",
                               !.requests[request].thens = <<>>]
           w == RunThens(w0, thens, value)
       IN /\ Within(objs, w)
          /\ generatorStates' = w.generatorStates
          /\ requests' = w.requests
          /\ timers' = w.timers
          /\ nextId' = w.nextId
          /\ last' = Step("Resolve", request, NoObject,
                          \E k \in 1..Len(thens) : Present(generatorStates, thens[k]),
                          value, {}, suggestions)
    /\ UNCHANGED <<parserResult, allCaches>>

Resolve(request, suggestions) == ResolveWithin(MaxObjs, request, suggestions)

\* a back-end's promise rejects: request.then has a fulfilment callback only,
\* so the registered callbacks are dropped without running
Reject(request) ==
    /\ request \in 1..Len(requests)
    /\ requests[request].status = "pending"
    /\ requests' = [requests EXCEPT ![request].status = "rejected",
                                    ![request].thens = <<>>]
    /\ last' = Step("Reject", request, NoObject,
                    \E k \in 1..Len(requests[request].thens) :
                        Present(generatorStates, requests[request].thens[k]),
                    <<>>, {}, <<>>)
    /\ UNCHANGED <<generatorStates, parserResult, timers, nextId, allCaches>>

\* time passes, no further than the next timer's delay
Tick ==
    /\ timers # <<>>
    /\ DueTimers = {}
    /\ LET d == Min({TickStep} \cup {timers[i].delay - timers[i].elapsed : i \in 1..Len(timers)})
       IN timers' = [i \in 1..Len(timers) |-> [timers[i] EXCEPT !.elapsed = @ + d]]
    /\ last' = Step("Tick", NoRequest, NoObject, FALSE, <<>>, {}, <<>>)
    /\ UNCHANGED <<generatorStates, parserResult, requests, nextId, allCaches>>

Next ==
    \/ \E currentArg \in Args, searchTerm \in Terms : Evaluate(currentArg, searchTerm)
    \/ TimerFire
    \/ \E request \in 1..MaxRequests, suggestions \in RawResults : Resolve(request, suggestions)
    \/ Tick

Spec == Init /\ [][Next]_vars

\* the scheduler with back-ends whose promises may also reject
NextFailure ==
    \/ Next
    \/ \E request \in 1..MaxRequests : Reject(request)

SpecFailure == Init /\ [][NextFailure]_vars

\* descriptors by the fields triggerGenerator tests: a template and a script,
\* a script and no template, neither (the custom function is what is left)
GenTemplateScript ==
    [id |-> 21, template |-> TRUE, script |-> TRUE,
     trigger |-> TriggerOn("change"), filterTemplateSuggestions |-> FALSE]
GenScriptOnly ==
    [id |-> 22, template |-> FALSE, script |-> TRUE,
     trigger |-> TriggerOn("change"), filterTemplateSuggestions |-> FALSE]
GenCustomOnly ==
    [id |-> 23, template |-> FALSE, script |-> FALSE,
     trigger |-> TriggerOn("change"), filterTemplateSuggestions |-> FALSE]
ArgBackends ==
    [id |-> 31, generators |-> <<GenTemplateScript, GenScriptOnly, GenCustomOnly>>,
     debounce |-> DebounceUndefined, isDangerous |-> FALSE]
ArgBackendsDebounced ==
    [id |-> 32, generators |-> <<GenTemplateScript, GenScriptOnly>>,
     debounce |-> DebounceNumber(100), isDangerous |-> TRUE]
BackendArgs == {ArgBackends, ArgBackendsDebounced}

\* re-evaluations of one argument as the user edits its search term
EvaluatePolicy(currentArg, searchTerm) ==
    /\ parserResult.currentArg.id \in {NoArg.id, currentArg.id}
    /\ Evaluate(currentArg, searchTerm)

\* the trigger decisions of triggerGenerators on the arguments of PolicyArgs
\* and the terms of PolicyTerms.  The decision reads the previous parser
\* result and whether the slot position holds a state, neither requests nor
\* timers, so the runs it starts are left outstanding.
NextPolicy ==
    \E input \in PolicyInputs : EvaluatePolicy(input[1], input[2])

SpecPolicy == Init /\ [][NextPolicy]_vars

\* the scheduler on one of the arguments of DebounceArgs, with the timers
\* running; the requests are left outstanding
NextDebounce ==
    \/ \E currentArg \in DebounceArgs, searchTerm \in Terms :
          EvaluatePolicy(currentArg, searchTerm)
    \/ TimerFire
    \/ Tick

SpecDebounce == Init /\ [][NextDebounce]_vars

\* the scheduler on the argument with the custom generators, their requests
\* resolving with the lists of FilterResults
NextFilter ==
    \/ \E searchTerm \in Terms : EvaluatePolicy(ArgFilter, searchTerm)
    \/ \E request \in 1..MaxRequests, suggestions \in FilterResults :
          Resolve(request, suggestions)

SpecFilter == Init /\ [][NextFilter]_vars

\* the scheduler on one of the arguments of BackendArgs: runs started at once
\* and after the debounce delay, and their requests resolving
NextBackend ==
    \/ \E currentArg \in BackendArgs, searchTerm \in Terms :
          EvaluatePolicy(currentArg, searchTerm)
    \/ TimerFire
    \/ Tick
    \/ \E request \in 1..MaxRequests, suggestions \in RawResults :
          Resolve(request, suggestions)

SpecBackend == Init /\ [][NextBackend]_vars

\* an argument that runs its generator at once on every change of the search
\* term (ArgChange) and one that runs the same generator after a debounce
\* delay; MaxObjsDeep objects let a run complete, a second run start, a
\* debounced trigger replace it and the debounced run complete
MaxObjsDeep == 7
ArgSuperseding ==
    [id |-> 33, generators |-> <<GenChange>>,
     debounce |-> DebounceNumber(100), isDangerous |-> FALSE]
SupersedeArgs == {ArgChange, ArgSuperseding}

SupersedeResults == {<<SuggestionY>>, <<SuggestionX, SuggestionY>>}

\* the user completes the first argument, then moves on to the debounced one
EvaluateDeep(currentArg, searchTerm) ==
    /\ parserResult.currentArg.id \in {NoArg.id, ArgChange.id, currentArg.id}
    /\ EvaluateWithin(MaxObjsDeep, currentArg, searchTerm)
TimerFireDeep == TimerFireWithin(MaxObjsDeep)
ResolveDeep(request, suggestions) == ResolveWithin(MaxObjsDeep, request, suggestions)

NextSupersede ==
    \/ \E currentArg \in SupersedeArgs, searchTerm \in Terms :
          EvaluateDeep(currentArg, searchTerm)
    \/ TimerFireDeep
    \/ Tick
    \/ \E request \in 1..MaxRequests, suggestions \in SupersedeResults :
          ResolveDeep(request, suggestions)

SpecSupersede == Init /\ [][NextSupersede]_vars

\* the states getGeneratorContext is applied to: what the shell reported, the
\* command line and the parser result of the re-evaluation
FigStates ==
    [cwd : {Undefined, "", "/home/user"},
     processUserIsIn : {Undefined, "", "zsh"},
     environmentVariables : {Undefined, "PATH=/bin"}]
Commands ==
    {NoCommand} \cup {Command(Tokens(n)) : n \in 0..MaxTokens}
        \cup {Command(Reversed(Tokens(MaxTokens)))}
ContextParserResults ==
    [currentArg : Args, searchTerm : Terms,
     annotations : {Annotations(n) : n \in 0..MaxTokens},
     commandIndex : 0..(MaxTokens + 1)]
ContextInputs ==
    [figState : FigStates, command : Commands, parserResult : ContextParserResults]

\* getGeneratorContext builds the context of a re-evaluation; last keeps the
\* state it was applied to and the context built.  It reads nothing but its
\* argument and keeps nothing, so one application per behaviour covers it.
BuildContext(state) ==
    /\ last.op = "Init"
    /\ last' = Step("GetGeneratorContext", NoRequest, NoObject, FALSE,
                    GetGeneratorContextOf(state), {}, state)
    /\ UNCHANGED <<generatorStates, parserResult, requests, timers, nextId, allCaches>>

NextContext == \E state \in ContextInputs : BuildContext(state)

SpecContext == Init /\ [][NextContext]_vars

\* some registered cache holds an entry
Populated(caches) ==
    \E i \in 1..Len(caches), key \in CacheKeys : caches[i][key] # NoEntry

CreateCache ==
    /\ Len(allCaches) < MaxCaches
    /\ allCaches' = CreateCacheIn(allCaches)
    /\ last' = Step("CreateCache", NoRequest, NoObject, Populated(allCaches), <<>>, {}, <<>>)
    /\ UNCHANGED <<generatorStates, parserResult, requests, timers, nextId>>

ResetCaches ==
    /\ allCaches' = ResetCachesIn(allCaches)
    /\ last' = Step("ResetCaches", NoRequest, NoObject, Populated(allCaches), <<>>, {}, <<>>)
    /\ UNCHANGED <<generatorStates, parserResult, requests, timers, nextId>>

CacheSet(cache, key, value) ==
    /\ cache \in 1..Len(allCaches)
    /\ allCaches' = CacheSetIn(allCaches, cache, key, value)
    /\ last' = Step("CacheSet", NoRequest, NoObject, Populated(allCaches), <<>>, {}, <<>>)
    /\ UNCHANGED <<generatorStates, parserResult, requests, timers, nextId>>

\* the cache registry and the holders of its caches
NextCache ==
    \/ CreateCache
    \/ ResetCaches
    \/ \E cache \in 1..MaxCaches, key \in CacheKeys, value \in CacheValues :
          CacheSet(cache, key, value)

SpecCache == Init /\ [][NextCache]_vars

----------------------------------------------------------------------------
(* Properties *)

Slots == 1..Len(generatorStates)
PendingRequests == {r \in 1..Len(requests) : requests[r].status = "pending"}
NewRequests == (Len(requests) + 1)..Len(requests')

\* the suggestions of a resolved request as a state holds them: in the same
\* order, each with the back-reference to the generator
Tagged(value, generator) ==
    [k \in 1..Len(value) |->
        [name |-> value[k].name, tmpl |-> value[k].tmpl, generator |-> generator.id]]

\* what a request may resolve with
RequestValues(request) ==
    {RequestValue(requests[request].filtered, suggestions) : suggestions \in RawResults}

\* C1: a completion for a GeneratorState object that is no longer in the live
\* generatorStates list leaves generatorStates as it is: for every completion
\* callback that is registered and every value its request may resolve with,
\* updateGenerator on an object that is not in the store changes no slot.
C1_StaleCompletionIsNoOp ==
    \A r \in PendingRequests :
        \A k \in 1..Len(requests[r].thens) :
            LET generatorState == requests[r].thens[k]
            IN ~Present(generatorStates, generatorState) =>
                   \A value \in RequestValues(r) :
                       UpdateGenerator(World, generatorState,
                           UpdateResult(TagSuggestions(value, generatorState.generator))
                       ).generatorStates = generatorStates

\* C1 witness: a request resolved with suggestions, none of its callbacks found
\* its object, and the store holds states of the generator that was run
C1_Witness ==
    /\ last.op = "Resolve"
    /\ ~last.found
    /\ last.value # <<>>
    /\ \E i \in Slots :
          generatorStates[i].generator.id = requests[last.request].generator

\* C2: two overlapping runs of one slot.  When a request resolves, a slot whose
\* current state does not hold that request (it was triggered again since, or
\* replaced) keeps its state, whatever the order of the resolutions; a slot
\* whose current state is loading with that request takes the suggestions of
\* that request.  So the first run never reaches the store once the second
\* trigger replaced the state, and the second run's result stays.
C2_OverlappingRuns ==
    [][last'.op = "Resolve" =>
         /\ Len(generatorStates') = Len(generatorStates)
         /\ \A i \in Slots :
               IF generatorStates[i].request = last'.request
               THEN /\ generatorStates'[i].request = last'.request
                    /\ generatorStates'[i].result =
                           Tagged(last'.value, generatorStates[i].generator)
               ELSE generatorStates'[i] = generatorStates[i]]_vars

\* C2 witness: the first run of a slot resolves after the second run of the
\* same slot has resolved; the slot holds the second run's suggestions, which
\* differ from what the first run resolved with
C2_Witness ==
    /\ last.op = "Resolve"
    /\ ~last.found
    /\ \E i \in Slots :
          /\ generatorStates[i].generator.id = requests[last.request].generator
          /\ generatorStates[i].request > last.request
          /\ requests[generatorStates[i].request].status = "resolved"
          /\ ~generatorStates[i].loading
          /\ generatorStates[i].result # <<>>
          /\ generatorStates[i].result # Tagged(last.value, generatorStates[i].generator)

\* C3: when a request resolves and its GeneratorState is still in the store,
\* that entry is replaced by a new state with loading = false and the resolved
\* suggestions in the same order, each tagged with the state's generator; the
\* generator and the context of the entry stay, and every other slot holds the
\* same object as before.
C3_CompletionReplacesEntry ==
    [][last'.op = "Resolve" =>
         \A k \in 1..Len(requests[last'.request].thens) :
             LET generatorState == requests[last'.request].thens[k]
             IN \A i \in Slots :
                   generatorStates[i].id = generatorState.id =>
                       /\ generatorStates'[i].id # generatorStates[i].id
                       /\ ~generatorStates'[i].loading
                       /\ generatorStates'[i].result =
                              Tagged(last'.value, generatorState.generator)
                       /\ generatorStates'[i].generator = generatorStates[i].generator
                       /\ generatorStates'[i].context = generatorStates[i].context
                       /\ \A j \in Slots \ {i} : generatorStates'[j] = generatorStates[j]]_vars

\* C3 witness: a request resolved with two suggestions into one slot of a
\* store of two
C3_Witness ==
    /\ last.op = "Resolve"
    /\ last.found
    /\ Len(last.value) = 2
    /\ Len(generatorStates) = 2
    /\ \E i \in Slots :
          /\ generatorStates[i].request = last.request
          /\ ~generatorStates[i].loading
          /\ Len(generatorStates[i].result) = 2

\* trigger policies of every kind
TriggerPolicies ==
    {TriggerUndefined, TriggerString(TermA), TriggerFunction("never"),
     TriggerFunction("always"), TriggerFunction("throws"), TriggerFunction("firstLonger"),
     TriggerThreshold(0), TriggerThreshold(1), TriggerMatch(<<TermA>>),
     TriggerOn("change"), TriggerOn("other")}

\* the slots of the list a re-evaluation returns
SlotsAfter == 1..Len(generatorStates')

\* the context a re-evaluation builds
ContextAfter ==
    [isDangerous |-> parserResult'.currentArg.isDangerous,
     searchTerm |-> parserResult'.searchTerm]

\* the result of the previous state at a slot position, empty if there is none
PreviousResult(i) == IF i <= Len(generatorStates) THEN generatorStates[i].result ELSE <<>>

\* the debounce of the argument makes the re-evaluation defer
DebouncedAfter ==
    LET debounce == parserResult'.currentArg.debounce
    IN \/ debounce.kind = "boolean" /\ debounce.b
       \/ debounce.kind = "number" /\ debounce.n # 0

\* slot i ran in this step: it holds a new loading state of its generator, and
\* a back-end was called for it or a debounce callback was scheduled for it
TriggeredInStep(i) ==
    /\ generatorStates'[i].id >= nextId
    /\ generatorStates'[i].loading
    /\ generatorStates'[i].generator = parserResult'.currentArg.generators[i]
    /\ \/ generatorStates'[i].request \in NewRequests
       \/ \E j \in (Len(timers) + 1)..Len(timers') :
             timers'[j].state.id = generatorStates'[i].id

\* C4: in a re-evaluation, a slot with no previous GeneratorState at its
\* position, or of an argument that is not the previous argument, triggers
\* whatever its trigger policy: the slot runs, and the trigger decision is true
\* for the policies of every kind on the terms of the step.
C4_AlwaysTriggersOnNewSlotOrArg ==
    [][last'.op = "Evaluate" =>
         \A i \in 1..Len(parserResult'.currentArg.generators) :
             (\/ i > Len(generatorStates)
              \/ parserResult'.currentArg.id # parserResult.currentArg.id) =>
                 /\ TriggeredInStep(i)
                 /\ \A trigger \in TriggerPolicies :
                       ShouldTrigger(i <= Len(generatorStates),
                                     parserResult'.currentArg, parserResult.currentArg,
                                     trigger, parserResult'.searchTerm,
                                     parserResult.searchTerm)]_vars

\* C4 witness: the user came to ArgPlain, after ArgDebounced, with the empty
\* term: the slot without trigger policy (no debounce) and the slot whose trigger
\* function returns false both hold new loading states with a request
C4_Witness ==
    /\ last.op = "Evaluate"
    /\ last.fresh = {1, 2}
    /\ parserResult.currentArg = ArgPlain
    /\ parserResult.searchTerm = TermEmpty
    /\ Len(timers) > 0
    /\ \A i \in {1, 2} :
          /\ generatorStates[i].loading
          /\ generatorStates[i].request \in PendingRequests
          /\ generatorStates[i].context.searchTerm = TermEmpty

\* C5: in a re-evaluation, a slot whose trigger decision is false holds the
\* previous GeneratorState object of the slot; only the slots that trigger call
\* a back-end or schedule a debounce callback; when no slot has a reason to
\* trigger (the argument is the previous one and every decision is false), the
\* list returned is the list that was there, and nothing else changed.
NotTriggering(i) ==
    /\ i <= Len(generatorStates)
    /\ ~ShouldTrigger(TRUE, parserResult'.currentArg, parserResult.currentArg,
                      parserResult'.currentArg.generators[i].trigger,
                      parserResult'.searchTerm, parserResult.searchTerm)

C5_NoTriggerCarriesForward ==
    [][last'.op = "Evaluate" =>
         LET generators == parserResult'.currentArg.generators
             idle == {i \in 1..Len(generators) : NotTriggering(i)}
         IN /\ \A i \in idle : generatorStates'[i] = generatorStates[i]
            /\ (Len(requests') - Len(requests)) + (Len(timers') - Len(timers))
                   = Len(generators) - Cardinality(idle)
            /\ \A r \in NewRequests :
                   \E i \in (1..Len(generators)) \ idle :
                       generatorStates'[i].request = r
            /\ \A j \in (Len(timers) + 1)..Len(timers') :
                   \E i \in (1..Len(generators)) \ idle :
                       generatorStates'[i].id = timers'[j].state.id
            /\ (/\ idle = 1..Len(generators)
                /\ parserResult'.currentArg.id = parserResult.currentArg.id) =>
                   /\ generatorStates' = generatorStates
                   /\ requests' = requests
                   /\ timers' = timers
                   /\ nextId' = nextId]_vars

\* C5 witness: a re-evaluation of ArgPlain with another term in which no slot
\* triggered; the first slot serves its result, the second is still loading
C5_Witness ==
    /\ last.op = "Evaluate"
    /\ last.fresh = {}
    /\ parserResult.currentArg = ArgPlain
    /\ Len(generatorStates) = 2
    /\ generatorStates[1].context.searchTerm # parserResult.searchTerm
    /\ ~generatorStates[1].loading /\ generatorStates[1].result # <<>>
    /\ generatorStates[2].loading

\* C6: in a re-evaluation of an argument without debounce, for every slot that
\* triggers the back-end is called exactly once, with the context built in
\* this re-evaluation, and the slot holds a state that is loading, holds that
\* pending request (with its completion registered), has the new context and
\* the result of the previous state at the slot position (empty if none).
C6_ImmediateExecution ==
    [][(last'.op = "Evaluate" /\ ~DebouncedAfter) =>
         /\ \A i \in last'.fresh :
               LET calls == {r \in NewRequests :
                                requests'[r].generator = generatorStates'[i].generator.id}
               IN /\ Cardinality(calls) = 1
                  /\ \A r \in calls :
                        /\ requests'[r].context = ContextAfter
                        /\ requests'[r].status = "pending"
                        /\ requests'[r].backend
                               = Backend(parserResult'.currentArg.generators[i])
                        /\ requests'[r].thens = <<generatorStates'[i]>>
                        /\ generatorStates'[i].request = r
                  /\ generatorStates'[i].loading
                  /\ generatorStates'[i].context = ContextAfter
                  /\ generatorStates'[i].result = PreviousResult(i)
         /\ Cardinality(NewRequests) = Cardinality(last'.fresh)]_vars

\* C6 witness: the second slot of ArgPlain triggered again on a longer term
\* while the first slot did not; it is loading with a new request and the
\* result it had before
C6_Witness ==
    /\ last.op = "Evaluate"
    /\ last.fresh = {2}
    /\ parserResult.currentArg = ArgPlain
    /\ generatorStates[2].loading
    /\ generatorStates[2].request = Len(requests)
    /\ generatorStates[2].context.searchTerm = TermA
    /\ generatorStates[2].result # <<>>

\* C7: in a re-evaluation of an argument with debounce, a slot that triggers
\* holds a new state with the previous result of the slot position,
\* loading = true and no request, a callback is scheduled for it and no
\* back-end is called in the re-evaluation; a back-end is called only by a
\* re-evaluation without debounce or by a callback whose delay has elapsed.
C7_DebouncedTriggerDefers ==
    [][/\ (last'.op = "Evaluate" /\ DebouncedAfter) =>
             /\ requests' = requests
             /\ \A i \in last'.fresh :
                   /\ generatorStates'[i].loading
                   /\ generatorStates'[i].request = NoRequest
                   /\ generatorStates'[i].result = PreviousResult(i)
                   /\ \E j \in (Len(timers) + 1)..Len(timers') :
                         /\ timers'[j].state = generatorStates'[i]
                         /\ timers'[j].elapsed = 0
                         /\ timers'[j].delay > 0
       /\ NewRequests # {} =>
             \/ last'.op = "Evaluate" /\ ~DebouncedAfter
             \/ /\ last'.op = "TimerFire"
                /\ \E j \in 1..Len(timers) :
                      /\ timers[j].state.id = last'.obj
                      /\ timers[j].elapsed >= timers[j].delay]_vars

\* C7 witness: a debounced slot triggered again after a completed run: it
\* serves the result of that run, is loading, has no request, and its callback
\* waits
C7_Witness ==
    /\ last.op = "Evaluate"
    /\ last.fresh = {1}
    /\ parserResult.currentArg = ArgDebounced
    /\ generatorStates[1].loading
    /\ generatorStates[1].request = NoRequest
    /\ generatorStates[1].result # <<>>
    /\ generatorStates[1].result[1].generator = GenScript.id
    /\ \E j \in 1..Len(timers) :
          timers[j].state.id = generatorStates[1].id /\ timers[j].elapsed = 0

\* the callback that fires in this step, as it was scheduled
FiredTimers == {j \in 1..Len(timers) : timers[j].state.id = last'.obj}

\* C8: a re-evaluation leaves the scheduled callbacks scheduled, also when it
\* changes the context without triggering the slot; when a callback fires and
\* its state object is the current entry of a slot, the back-end is called
\* once with the generator and the context of the scheduled state (captured at
\* scheduling time, whatever the parser result is by then) and the slot holds
\* a loading state with that request and context; when its state object is
\* not in the store, no back-end is called and the store is not changed, so
\* nothing of it is merged.
C8_DebouncedRunUsesCapturedContext ==
    [][/\ last'.op = "Evaluate" => SubSeq(timers', 1, Len(timers)) = timers
       /\ last'.op = "TimerFire" =>
             \A j \in FiredTimers :
                 LET scheduled == timers[j].state
                     current == {i \in Slots : generatorStates[i].id = scheduled.id}
                 IN IF current = {}
                    THEN /\ requests' = requests
                         /\ generatorStates' = generatorStates
                    ELSE /\ NewRequests = {Len(requests')}
                         /\ requests'[Len(requests')].context = scheduled.context
                         /\ requests'[Len(requests')].generator = scheduled.generator.id
                         /\ \A i \in current :
                               /\ generatorStates'[i].request = Len(requests')
                               /\ generatorStates'[i].loading
                               /\ generatorStates'[i].context = scheduled.context
                               /\ generatorStates'[i].generator = scheduled.generator
                         /\ \A i \in Slots \ current :
                               generatorStates'[i] = generatorStates[i]]_vars

\* C8 witness: a callback fired on its still current state after a
\* re-evaluation had changed the search term without triggering: the request
\* has the term captured at scheduling time, not the term of the store
C8_Witness ==
    /\ last.op = "TimerFire"
    /\ last.found
    /\ parserResult.currentArg = ArgDebounced
    /\ parserResult.searchTerm = TermEmpty
    /\ generatorStates[1].request = Len(requests)
    /\ requests[Len(requests)].context.searchTerm = TermA
    /\ generatorStates[1].context.searchTerm = TermA

\* C9: a scheduled debounce callback stays scheduled, with its state object and
\* delay and without its elapsed time being reset, until the step in which it
\* fires after its delay; when it fires it calls the back-end only if its
\* state object is in the store, and otherwise changes neither the requests
\* nor the store; a state object that left the store does not come back, and
\* of the callbacks scheduled for one generator only the last scheduled can
\* have its state in the store, so a burst of triggers calls the back-end at
\* most once.
C9_DebounceNeverCancelled ==
    [][/\ \A j \in 1..Len(timers) :
             \/ \E k \in 1..Len(timers') :
                   /\ timers'[k].state = timers[j].state
                   /\ timers'[k].delay = timers[j].delay
                   /\ timers'[k].elapsed >= timers[j].elapsed
             \/ /\ last'.op = "TimerFire"
                /\ last'.obj = timers[j].state.id
                /\ timers[j].elapsed >= timers[j].delay
       /\ last'.op = "TimerFire" =>
             /\ Len(timers') = Len(timers) - 1
             /\ IF \E i \in Slots : generatorStates[i].id = last'.obj
                THEN Len(requests') = Len(requests) + 1
                ELSE requests' = requests /\ generatorStates' = generatorStates
       /\ \A j \in 1..Len(timers) :
             ~Present(generatorStates, timers[j].state)
                 => ~Present(generatorStates', timers[j].state)
       /\ \A j, k \in 1..Len(timers') :
             (j < k /\ timers'[j].state.generator.id = timers'[k].state.generator.id)
                 => ~Present(generatorStates', timers'[j].state)]_vars

\* C9 witness: of two callbacks scheduled for the same slot, the earlier one
\* fired on a state that had been replaced, called nothing, and the later one
\* is still scheduled for the current state
C9_Witness ==
    /\ last.op = "TimerFire"
    /\ ~last.found
    /\ requests = <<>>
    /\ Len(generatorStates) = 1
    /\ \E j \in 1..Len(timers) :
          /\ timers[j].state.id = generatorStates[1].id
          /\ timers[j].state.id > last.obj
          /\ timers[j].state.generator = GenScript

\* C10: a state that updateGenerator stores while it is loading with a request
\* (a debounce callback firing on a state that is still current) has the
\* completion of that request registered for the stored object itself; every
\* loading entry of the store that holds a request is registered this way, and
\* when the request resolves such an entry becomes loading = false with the
\* suggestions of that request.
C10_UpdateRearmsCompletion ==
    [][/\ (last'.op = "TimerFire" /\ last'.found) =>
             \E i \in SlotsAfter :
                 /\ generatorStates'[i].loading
                 /\ generatorStates'[i].request \in NewRequests
       /\ \A i \in SlotsAfter :
             (generatorStates'[i].loading /\ generatorStates'[i].request # NoRequest) =>
                 LET request == requests'[generatorStates'[i].request]
                 IN /\ request.status = "pending"
                    /\ \E k \in 1..Len(request.thens) :
                          request.thens[k] = generatorStates'[i]
       /\ last'.op = "Resolve" =>
             \A i \in Slots :
                 (generatorStates[i].loading
                      /\ generatorStates[i].request = last'.request) =>
                     /\ ~generatorStates'[i].loading
                     /\ generatorStates'[i].result
                            = Tagged(last'.value, generatorStates[i].generator)]_vars

\* C10 witness: the request of a state stored by a debounce callback resolved
\* with suggestions and the slot is no longer loading
C10_Witness ==
    /\ last.op = "Resolve"
    /\ last.found
    /\ parserResult.currentArg = ArgDebounced
    /\ requests[last.request].generator = GenScript.id
    /\ ~generatorStates[1].loading
    /\ generatorStates[1].request = last.request
    /\ generatorStates[1].result # <<>>

\* the slots the store would hold a new entry in if the request completed now
CompletionWrites(request) ==
    LET w == RunThens([World EXCEPT !.requests[request].thens = <<>>],
                      requests[request].thens, <<>>)
    IN {i \in Slots : w.generatorStates[i] # generatorStates[i]}

\* C11: in every reachable state, the only outstanding request whose
\* completion would be written into a slot is the request the current state of
\* that slot holds, so there is at most one per slot; every other outstanding
\* request, the replaced runs of the slot's generator among them, completes
\* without writing anything.
C11_OneAuthoritativeRunPerSlot ==
    /\ \A i \in Slots :
          {r \in PendingRequests : i \in CompletionWrites(r)} \subseteq {generatorStates[i].request}
    /\ \A r \in PendingRequests :
          /\ Cardinality(CompletionWrites(r)) <= 1
          /\ (\A i \in Slots : generatorStates[i].request # r) => CompletionWrites(r) = {}

\* a slot whose generator has two runs outstanding: the one its state holds,
\* which would be written, and a replaced one with its callback still registered
C11_Witness ==
    \E i \in Slots : \E r \in PendingRequests :
        /\ generatorStates[i].request \in PendingRequests
        /\ r # generatorStates[i].request
        /\ requests[r].generator = generatorStates[i].generator.id
        /\ requests[generatorStates[i].request].generator = generatorStates[i].generator.id
        /\ requests[r].thens # <<>>
        /\ CompletionWrites(generatorStates[i].request) = {i}
        /\ CompletionWrites(r) = {}

\* the generators of the current argument, by id
CurrentGenerators ==
    {parserResult.currentArg.generators[i].id :
        i \in 1..Len(parserResult.currentArg.generators)}

\* C12: once the user is on a different argument, the completion of a run that
\* was started for a generator of a previous argument leaves every slot of the
\* store as it was, also when the current argument has a generator at the
\* slot index the run was started for.
C12_PreviousArgumentRunNeverWrites ==
    [][(/\ last'.op = "Resolve"
        /\ requests[last'.request].generator \notin CurrentGenerators)
       => generatorStates' = generatorStates]_vars

\* a run of the first generator of the plain argument completed with
\* suggestions while the debounced argument's generator occupies slot 1
C12_Witness ==
    /\ last.op = "Resolve"
    /\ requests[last.request].generator = GenTemplate.id
    /\ last.value # <<>>
    /\ ~last.found
    /\ parserResult.currentArg = ArgDebounced
    /\ Len(generatorStates) = 1
    /\ generatorStates[1].generator = GenScript

\* C13: a slot whose run failed, its request rejected, has ended the round:
\* it is not loading and holds an empty suggestion list.
C13_FailedRunEndsRound ==
    \A i \in Slots :
        (/\ generatorStates[i].request # NoRequest
         /\ requests[generatorStates[i].request].status = "rejected")
        => /\ ~generatorStates[i].loading
           /\ generatorStates[i].result = <<>>

\* the rejection of a request leaves the store, the other requests and their
\* registered callbacks, and the timers as they were
C13_OtherSlotsUnaffected ==
    [][last'.op = "Reject"
       => /\ generatorStates' = generatorStates
          /\ timers' = timers
          /\ \A r \in 1..Len(requests) : r # last'.request => requests'[r] = requests[r]]_vars

\* C14: in every reachable store state, an entry holds a request only while it
\* is loading: no entry has loading=false together with a request.
C14_RequestOnlyWhileLoading ==
    \A i \in Slots : ~generatorStates[i].loading => generatorStates[i].request = NoRequest

\* the requests of a generator that have resolved
CompletedRuns(generator) ==
    {r \in 1..Len(requests) : /\ requests[r].generator = generator.id
                              /\ requests[r].status = "resolved"}

\* C15: in every reachable store state, the result of an entry comes from a
\* completed run of the entry's own generator: it is empty when no run of that
\* generator has completed, as for the entries created on a move to a different
\* argument, and its suggestions are those of the entry's own generator.
C15_ResultOfOwnGenerator ==
    \A i \in Slots :
        /\ CompletedRuns(generatorStates[i].generator) = {} => generatorStates[i].result = <<>>
        /\ \A k \in 1..Len(generatorStates[i].result) :
              generatorStates[i].result[k].generator = generatorStates[i].generator.id

\* C16: every suggestion an entry holds carries a generator back-reference,
\* and it is the generator whose run produced the suggestion: a result enters
\* the store only when a request resolves, tagged with the generator that
\* request was started for, and otherwise a result is the one the slot
\* position held before.
C16_BackReferenceIsProducer ==
    [][\A i \in SlotsAfter :
          LET result == generatorStates'[i].result
          IN /\ \A k \in 1..Len(result) : result[k].generator # NoGenerator
             /\ \/ result = PreviousResult(i)
                \/ /\ last'.op = "Resolve"
                   /\ Len(result) = Len(last'.value)
                   /\ \A k \in 1..Len(result) :
                         /\ result[k].name = last'.value[k].name
                         /\ result[k].generator = requests[last'.request].generator]_vars

\* a request resolved with suggestions and its slot holds them, each with the
\* back-reference to the generator the request was started for
C16_Witness ==
    /\ last.op = "Resolve"
    /\ last.value # <<>>
    /\ \E i \in Slots :
          /\ generatorStates[i].request = last.request
          /\ Len(generatorStates[i].result) = Len(last.value)
          /\ \A k \in 1..Len(last.value) :
                generatorStates[i].result[k].generator = requests[last.request].generator

\* slot i is re-evaluated in this step with a previous state at its position
\* and the argument that was current before
ReevaluatedSameArg(i) ==
    /\ last'.op = "Evaluate"
    /\ parserResult'.currentArg.id = parserResult.currentArg.id
    /\ i \in SlotsAfter
    /\ i <= Len(generatorStates)

\* the policy of slot i of the argument of the step
PolicyAfter(i) == parserResult'.currentArg.generators[i].trigger

\* slot i keeps its state object and nothing was started for its generator
NotRunInStep(i) ==
    /\ generatorStates'[i] = generatorStates[i]
    /\ \A r \in NewRequests : requests'[r].generator # generatorStates'[i].generator.id
    /\ \A j \in (Len(timers) + 1)..Len(timers') :
          timers'[j].state.generator.id # generatorStates'[i].generator.id

\* C17: a slot with an absent trigger policy, of an argument that declares no
\* debounce, with a previous state and an unchanged argument, never triggers
\* in a re-evaluation, whatever the previous and the current search term: the
\* slot keeps its state and its generator is not invoked.
C17_AbsentPolicyNeverTriggers ==
    [][\A i \in SlotsAfter :
          (/\ ReevaluatedSameArg(i)
           /\ PolicyAfter(i).type = "undefined"
           /\ ~DebouncedAfter)
          => NotRunInStep(i)]_vars

\* the absent-policy argument was re-evaluated with a longer term than the one
\* its only run was started with, and that run is still the only one
C17_Witness ==
    /\ last.op = "Evaluate"
    /\ parserResult.currentArg = ArgAbsent
    /\ parserResult.searchTerm = <<"a", "/", "b", "c">>
    /\ Len(generatorStates) = 1
    /\ generatorStates[1].context.searchTerm = <<"a">>
    /\ last.fresh = {}
    /\ Len(requests) = 1

\* C18: a slot with an absent trigger policy whose argument declares itself
\* debounced triggers in every re-evaluation of that argument, also in one in
\* which the search term did not change.
C18_AbsentPolicyDebouncedAlwaysTriggers ==
    [][\A i \in SlotsAfter :
          (/\ ReevaluatedSameArg(i)
           /\ PolicyAfter(i).type = "undefined"
           /\ DebouncedAfter)
          => TriggeredInStep(i)]_vars

\* the debounced absent-policy argument was re-evaluated with the term it had
\* before, and the slot was triggered again: two callbacks are scheduled, for
\* the same term
C18_Witness ==
    /\ last.op = "Evaluate"
    /\ parserResult.currentArg = ArgAbsentDebounced
    /\ last.fresh = {1}
    /\ Len(timers) = 2
    /\ timers[1].state.context.searchTerm = parserResult.searchTerm
    /\ timers[2].state.context.searchTerm = parserResult.searchTerm
    /\ timers[2].state.id = generatorStates[1].id

\* the 0-based index of the rightmost occurrence of s in term at or before
\* index i, scanning from the right; -1 when there is none
RECURSIVE RightmostFrom(_, _, _)
RightmostFrom(term, s, i) ==
    IF i < 0 THEN -1
    ELSE IF \A k \in 1..Len(s) : term[i + k] = s[k] THEN i
    ELSE RightmostFrom(term, s, i - 1)

RightmostOccurrence(term, s) == RightmostFrom(term, s, Len(term) - Len(s))

\* C19: a slot with a substring trigger policy s, with a previous state and an
\* unchanged argument, triggers exactly when the rightmost occurrence of s has
\* a different index in the previous term than in the current term, absence
\* being an index of its own; with s = "/", "a/b" to "a/bc" does not trigger
\* and "a/b" to "a/b/c" triggers.
C19_SubstringPolicy ==
    [][\A i \in SlotsAfter :
          (ReevaluatedSameArg(i) /\ PolicyAfter(i).type = "string")
          => LET s == PolicyAfter(i).s
                 previous == parserResult.searchTerm
                 current == parserResult'.searchTerm
             IN /\ IF RightmostOccurrence(previous, s) # RightmostOccurrence(current, s)
                   THEN TriggeredInStep(i)
                   ELSE NotRunInStep(i)
                /\ (/\ s = <<"/">>
                    /\ previous = <<"a", "/", "b">>
                    /\ current = <<"a", "/", "b", "c">>) => NotRunInStep(i)
                /\ (/\ s = <<"/">>
                    /\ previous = <<"a", "/", "b">>
                    /\ current = <<"a", "/", "b", "/", "c">>) => TriggeredInStep(i)]_vars

\* the "/" slot ran for "a/b" and ran again when the term became "a/b/c"
C19_Witness ==
    /\ last.op = "Evaluate"
    /\ parserResult.currentArg = ArgSlash
    /\ parserResult.searchTerm = <<"a", "/", "b", "/", "c">>
    /\ last.fresh = {1}
    /\ Len(requests) = 2
    /\ requests[1].context.searchTerm = <<"a", "/", "b">>
    /\ requests[2].context.searchTerm = <<"a", "/", "b", "/", "c">>
    /\ generatorStates[1].request = 2

\* what the predicate of slot i returns for the terms in this order
PredicateAfter(i, first, second) == ApplyTriggerFunction(PolicyAfter(i).fn, first, second)

\* C20 as stated: a slot with a function trigger policy, with a previous state
\* and an unchanged argument, triggers exactly when the predicate, given the
\* previous search term first and the current search term second, returns
\* true, whenever it returns normally.
C20_PredicateGetsPreviousFirst ==
    [][\A i \in SlotsAfter :
          (/\ ReevaluatedSameArg(i)
           /\ PolicyAfter(i).type = "function"
           /\ PredicateAfter(i, parserResult.searchTerm, parserResult'.searchTerm) # "throw")
          => IF PredicateAfter(i, parserResult.searchTerm, parserResult'.searchTerm) = "true"
             THEN TriggeredInStep(i)
             ELSE NotRunInStep(i)]_vars

\* C20 amended: the predicate is given the current search term first and the
\* previous search term second, and when it returns normally the slot triggers
\* exactly when it returned true.
C20_PredicateGetsCurrentFirst ==
    [][\A i \in SlotsAfter :
          (/\ ReevaluatedSameArg(i)
           /\ PolicyAfter(i).type = "function"
           /\ PredicateAfter(i, parserResult'.searchTerm, parserResult.searchTerm) # "throw")
          => IF PredicateAfter(i, parserResult'.searchTerm, parserResult.searchTerm) = "true"
             THEN TriggeredInStep(i)
             ELSE NotRunInStep(i)]_vars

\* the slot whose predicate is "the first argument is longer" ran for the
\* empty term and ran again when the term grew to "a"
C20_Witness ==
    /\ last.op = "Evaluate"
    /\ parserResult.currentArg = ArgPredicate
    /\ parserResult.searchTerm = <<"a">>
    /\ last.fresh = {1}
    /\ Len(requests) = 2
    /\ requests[1].context.searchTerm = <<>>
    /\ requests[2].context.searchTerm = <<"a">>

\* C21: when the predicate of a function policy raises an exception, the
\* re-evaluation still returns its list, one state for every generator of the
\* argument, and the store takes it; the slot of the predicate triggers, and
\* the slots after it are decided by their own policies.
C21_PredicateExceptionTriggers ==
    [][\A i \in SlotsAfter :
          (/\ ReevaluatedSameArg(i)
           /\ PolicyAfter(i).type = "function"
           /\ PredicateAfter(i, parserResult'.searchTerm, parserResult.searchTerm) = "throw")
          => /\ TriggeredInStep(i)
             /\ Len(generatorStates') = Len(parserResult'.currentArg.generators)
             /\ \A j \in SlotsAfter :
                   (j > i /\ PolicyAfter(j).type = "string")
                   => IF RightmostOccurrence(parserResult.searchTerm, PolicyAfter(j).s)
                         # RightmostOccurrence(parserResult'.searchTerm, PolicyAfter(j).s)
                      THEN TriggeredInStep(j)
                      ELSE NotRunInStep(j)]_vars

\* the argument whose first generator has a throwing predicate was
\* re-evaluated: slot 1 ran again and slot 2 kept the state of its first run
C21_Witness ==
    /\ last.op = "Evaluate"
    /\ parserResult.currentArg = ArgThrows
    /\ last.fresh = {1}
    /\ Len(generatorStates) = 2
    /\ Len(requests) = 3
    /\ generatorStates[1].request = 3
    /\ generatorStates[2].request = 2
    /\ requests[3].context.searchTerm = <<"a", "/", "b", "c">>
    /\ requests[1].context.searchTerm = <<"a", "/", "b">>

\* slot i has a structured policy of this kind
PolicyKindAfter(i, on) == PolicyAfter(i).type = "object" /\ PolicyAfter(i).on = on

\* C22: a slot with a threshold policy of length N, with a previous state and
\* an unchanged argument, triggers exactly when the current term is longer
\* than N and the previous term was not: not while the length stays above N,
\* stays at or below N, or drops from above N to at or below N.
C22_ThresholdPolicy ==
    [][\A i \in SlotsAfter :
          (ReevaluatedSameArg(i) /\ PolicyKindAfter(i, "threshold"))
          => LET N == PolicyAfter(i).length
                 previous == Len(parserResult.searchTerm)
                 current == Len(parserResult'.searchTerm)
             IN /\ (previous <= N /\ current > N) => TriggeredInStep(i)
                /\ (previous > N /\ current > N) => NotRunInStep(i)
                /\ (previous <= N /\ current <= N) => NotRunInStep(i)
                /\ (previous > N /\ current <= N) => NotRunInStep(i)]_vars

\* the slot with threshold 3 ran for a term of length 3 and ran again when the
\* term grew to length 4
C22_Witness ==
    /\ last.op = "Evaluate"
    /\ parserResult.currentArg = ArgThreshold
    /\ Len(parserResult.searchTerm) = 4
    /\ last.fresh = {1}
    /\ Len(requests) = 2
    /\ Len(requests[1].context.searchTerm) = 3
    /\ generatorStates[1].request = 2

\* slot i has the threshold policy of length 3 and is re-evaluated from a
\* term of length previous to a term of length current
ThresholdThreeStep(i, previous, current) ==
    /\ ReevaluatedSameArg(i)
    /\ PolicyKindAfter(i, "threshold")
    /\ PolicyAfter(i).length = 3
    /\ Len(parserResult.searchTerm) = previous
    /\ Len(parserResult'.searchTerm) = current

\* C23 as stated: for a threshold policy with length 3, the term-length step
\* 2 to 3 triggers, whenever it occurs, and the step 3 to 4 does not trigger.
C23_ThresholdThreeAtLengthThree ==
    [][\A i \in SlotsAfter :
          /\ ThresholdThreeStep(i, 2, 3) => TriggeredInStep(i)
          /\ ThresholdThreeStep(i, 3, 4) => NotRunInStep(i)]_vars

\* C23 amended: for a threshold policy with length 3, the term-length step
\* 2 to 3 does not trigger, the step 3 to 4 triggers whenever it occurs, also
\* after the length had been above 3 and dropped back, and the steps 4 to 5 and
\* 5 to 3 do not trigger.
C23_ThresholdThreeAboveLengthThree ==
    [][\A i \in SlotsAfter :
          /\ ThresholdThreeStep(i, 2, 3) => NotRunInStep(i)
          /\ ThresholdThreeStep(i, 3, 4) => TriggeredInStep(i)
          /\ ThresholdThreeStep(i, 4, 5) => NotRunInStep(i)
          /\ ThresholdThreeStep(i, 5, 3) => NotRunInStep(i)]_vars

\* the slot with threshold 3 ran when the term grew to length 4, and ran a
\* second time for a term of length 4: the length had dropped in between
C23_Witness ==
    /\ last.op = "Evaluate"
    /\ parserResult.currentArg = ArgThreshold
    /\ Len(parserResult.searchTerm) = 4
    /\ last.fresh = {1}
    /\ Len(requests) = 3
    /\ Len(requests[1].context.searchTerm) = 2
    /\ Len(requests[2].context.searchTerm) = 4
    /\ Len(requests[3].context.searchTerm) = 4
    /\ generatorStates[1].request = 3

\* the position of the term in the literals of a match policy: the first
\* position that holds it, 0 when none does
PositionIn(strings, term) ==
    IF \E k \in 1..Len(strings) : strings[k] = term
    THEN CHOOSE k \in 1..Len(strings) :
            strings[k] = term /\ \A j \in 1..(k - 1) : strings[j] # term
    ELSE 0

\* C24: a slot with a match policy over one literal or a set of literals, with
\* a previous state and an unchanged argument, triggers exactly when the
\* position of the previous term among the literals (none when it is not one
\* of them) differs from the position of the current term; over
\* {"add", "remove"}, "xx" to "add" and "add" to "remove" trigger and "remove"
\* to "remove" does not.
C24_MatchPolicy ==
    [][\A i \in SlotsAfter :
          (ReevaluatedSameArg(i) /\ PolicyKindAfter(i, "match"))
          => LET strings == PolicyAfter(i).strings
                 previous == parserResult.searchTerm
                 current == parserResult'.searchTerm
                 add == <<"a", "d", "d">>
                 remove == <<"r", "e", "m", "o", "v", "e">>
             IN /\ IF PositionIn(strings, previous) # PositionIn(strings, current)
                   THEN TriggeredInStep(i)
                   ELSE NotRunInStep(i)
                /\ strings = <<add, remove>> =>
                      /\ (previous = <<"x", "x">> /\ current = add) => TriggeredInStep(i)
                      /\ (previous = add /\ current = remove) => TriggeredInStep(i)
                      /\ (previous = remove /\ current = remove) => NotRunInStep(i)]_vars

\* the slot matching {"add", "remove"} ran for "xx", for "add" and for
\* "remove", and the re-evaluation with "remove" again left it alone
C24_Witness ==
    /\ last.op = "Evaluate"
    /\ parserResult.currentArg = ArgMatchSet
    /\ parserResult.searchTerm = <<"r", "e", "m", "o", "v", "e">>
    /\ last.fresh = {}
    /\ Len(requests) = 3
    /\ requests[1].context.searchTerm = <<"x", "x">>
    /\ requests[2].context.searchTerm = <<"a", "d", "d">>
    /\ requests[3].context.searchTerm = <<"r", "e", "m", "o", "v", "e">>
    /\ generatorStates[1].request = 3

\* C25: a slot with a change policy, or with a structured policy of a kind
\* that is neither threshold nor match, with a previous state and an unchanged
\* argument, triggers exactly when the previous and the current search term
\* are unequal.
C25_ChangePolicy ==
    [][\A i \in SlotsAfter :
          (/\ ReevaluatedSameArg(i)
           /\ PolicyAfter(i).type = "object"
           /\ PolicyAfter(i).on \notin {"threshold", "match"})
          => IF parserResult.searchTerm # parserResult'.searchTerm
             THEN TriggeredInStep(i)
             ELSE NotRunInStep(i)]_vars

\* the slot whose structured policy has an unknown kind ran for "a" and ran
\* again when the term became "/", a term of the same length
C25_Witness ==
    /\ last.op = "Evaluate"
    /\ parserResult.currentArg = ArgOther
    /\ parserResult.searchTerm = <<"/">>
    /\ last.fresh = {1}
    /\ Len(requests) = 2
    /\ requests[1].context.searchTerm = <<"a">>
    /\ generatorStates[1].request = 2

\* the argument of the step declares a debounce: a number or true
DeclaresDebounceAfter ==
    LET debounce == parserResult'.currentArg.debounce
    IN debounce.kind = "number" \/ (debounce.kind = "boolean" /\ debounce.b)

\* C26: a slot triggered in a re-evaluation of an argument that declares a
\* debounce is deferred: no back-end is called in the step, and a callback is
\* scheduled for the slot's state with the declared delay when that is a
\* positive number and with 200 ms when it is zero, negative or not a number.
C26_DebounceDelay ==
    [][\A i \in SlotsAfter :
          (/\ last'.op = "Evaluate"
           /\ i \in last'.fresh
           /\ DeclaresDebounceAfter)
          => LET debounce == parserResult'.currentArg.debounce
                 delay == IF debounce.kind = "number" /\ debounce.n > 0
                          THEN debounce.n ELSE 200
             IN /\ generatorStates'[i].request = NoRequest
                /\ \E j \in (Len(timers) + 1)..Len(timers') :
                      /\ timers'[j].state.id = generatorStates'[i].id
                      /\ timers'[j].delay = delay
                      /\ timers'[j].elapsed = 0]_vars

\* the same for the arguments whose debounce is not the number zero
C26_DebounceDelayNonZero ==
    [][\A i \in SlotsAfter :
          (/\ last'.op = "Evaluate"
           /\ i \in last'.fresh
           /\ DeclaresDebounceAfter
           /\ parserResult'.currentArg.debounce # DebounceNumber(0))
          => LET debounce == parserResult'.currentArg.debounce
                 delay == IF debounce.kind = "number" /\ debounce.n > 0
                          THEN debounce.n ELSE 200
             IN /\ generatorStates'[i].request = NoRequest
                /\ \E j \in (Len(timers) + 1)..Len(timers') :
                      /\ timers'[j].state.id = generatorStates'[i].id
                      /\ timers'[j].delay = delay
                      /\ timers'[j].elapsed = 0]_vars

\* the world after a pending request resolved with suggestions
Completed(w, request, suggestions) ==
    RunThens([w EXCEPT !.requests[request].status = "resolved",
                       !.requests[request].thens = <<>>],
             w.requests[request].thens,
             RequestValue(w.requests[request].filtered, suggestions))

\* what the store holds, the identities of the objects aside
Content(states) == [i \in 1..Len(states) |-> [states[i] EXCEPT !.id = NoObject]]

\* C27: the runs of the generators of an argument proceed independently: in
\* every reachable state, the completion of any outstanding request changes
\* the entry of one slot at most and leaves the list as long as it was; the
\* request a loading slot holds is written when it completes, whatever else is
\* outstanding; and for any two outstanding requests and any suggestions they
\* resolve with, the store holds the same content after both completed in
\* either order.
C27_IndependentRuns ==
    /\ \A r \in PendingRequests : \A v \in RawResults :
          LET after == Completed(World, r, v).generatorStates
          IN /\ Len(after) = Len(generatorStates)
             /\ Cardinality({i \in Slots : after[i] # generatorStates[i]}) <= 1
    /\ \A i \in Slots :
          (generatorStates[i].loading /\ generatorStates[i].request \in PendingRequests)
          => CompletionWrites(generatorStates[i].request) = {i}
    /\ \A r1, r2 \in PendingRequests : \A v1, v2 \in RawResults :
          r1 < r2 =>
             Content(Completed(Completed(World, r1, v1), r2, v2).generatorStates)
             = Content(Completed(Completed(World, r2, v2), r1, v1).generatorStates)

\* the two generators of the plain argument ran in the same re-evaluation and
\* the second slot's request resolved before the first slot's; both slots hold
\* their suggestions
C27_Witness ==
    /\ last.op = "Resolve"
    /\ last.request = 1
    /\ parserResult.currentArg = ArgPlain
    /\ Len(generatorStates) = 2
    /\ generatorStates[1].request = 1
    /\ generatorStates[2].request = 2
    /\ ~generatorStates[1].loading
    /\ ~generatorStates[2].loading
    /\ generatorStates[2].id < generatorStates[1].id
    /\ generatorStates[1].result # <<>>
    /\ generatorStates[2].result # <<>>

\* C28: when the request of a custom generator resolves, the run's result is
\* the output of the descriptor's filter function on the resolved list exactly
\* when the descriptor has the filter flag, the list is not empty and its
\* first suggestion has the template meta data; otherwise it is the resolved
\* list as the custom function gave it.  The slot that holds the request
\* takes that result, tagged.
C28_FilterTemplateSuggestions ==
    [][\A i \in Slots :
          (/\ last'.op = "Resolve"
           /\ generatorStates[i].request = last'.request
           /\ ~generatorStates[i].generator.template
           /\ ~generatorStates[i].generator.script)
          => LET generator == generatorStates[i].generator
                 raw == last'.raw
                 expected == IF /\ generator.filterTemplateSuggestions
                                /\ Len(raw) > 0
                                /\ Head(raw).tmpl
                             THEN FilterTemplateSuggestions(raw)
                             ELSE raw
             IN /\ last'.value = expected
                /\ generatorStates'[i].result = Tagged(expected, generator)
                /\ ~generatorStates'[i].loading]_vars

\* the flagged custom generator's request resolved with a template suggestion
\* first and another one after it, and its slot holds the filtered list
C28_Witness ==
    /\ last.op = "Resolve"
    /\ last.raw = <<SuggestionX, SuggestionY>>
    /\ last.value = <<SuggestionX>>
    /\ \E i \in Slots :
          /\ generatorStates[i].request = last.request
          /\ generatorStates[i].generator = GenCustom
          /\ generatorStates[i].result = Tagged(<<SuggestionX>>, GenCustom)

\* C29: after resetCaches(), every registered cache is empty for all keys,
\* whatever it held, and the registry has the caches it had before: as many,
\* at the same places.
C29_ResetCachesEmptiesAll ==
    [][last'.op = "ResetCaches"
       => /\ Len(allCaches') = Len(allCaches)
          /\ \A i \in 1..Len(allCaches) : \A key \in CacheKeys :
                allCaches'[i][key] = NoEntry]_vars

\* resetCaches() ran on a registry of three caches of which some held an
\* entry: the three are registered and empty
C29_Witness ==
    /\ last.op = "ResetCaches"
    /\ last.found
    /\ Len(allCaches) = 3
    /\ \A i \in 1..3 : \A key \in CacheKeys : allCaches[i][key] = NoEntry

\* C30: createCache() registers exactly one more cache: the registry grows by
\* one, the new cache is empty and is none of the caches registered before,
\* and those hold what they held.
C30_CreateCacheAddsOneEmpty ==
    [][last'.op = "CreateCache"
       => /\ Len(allCaches') = Len(allCaches) + 1
          /\ \A key \in CacheKeys : allCaches'[Len(allCaches')][key] = NoEntry
          /\ Len(allCaches') \notin 1..Len(allCaches)
          /\ \A i \in 1..Len(allCaches) : allCaches'[i] = allCaches[i]]_vars

\* createCache() ran while the two caches of the module held entries: they
\* still do, and the third cache is empty
C30_Witness ==
    /\ last.op = "CreateCache"
    /\ Len(allCaches) = 3
    /\ allCaches[1]["k1"] = "v1"
    /\ allCaches[2]["k2"] = "v2"
    /\ \A key \in CacheKeys : allCaches[3][key] = NoEntry

----------------------------------------------------------------------------
(* The dangerous flag and scheduling *)

\* the current argument with its isDangerous flag set to flag; the same object
\* otherwise
WithDangerous(arg, flag) == [arg EXCEPT !.isDangerous = flag]

\* a context, a state, a request, a timer without what context.isDangerous says
EraseContext(context) == [context EXCEPT !.isDangerous = FALSE]
EraseState(state) == [state EXCEPT !.context = EraseContext(@)]
EraseRequest(request) ==
    [request EXCEPT !.context = EraseContext(@),
                    !.thens = [k \in 1..Len(@) |-> EraseState(@[k])]]
EraseTimer(timer) == [timer EXCEPT !.state = EraseState(@)]

\* the re-evaluation of the store as it is for the argument arg, flagged flag
EvaluationWith(arg, flag, searchTerm) ==
    TriggerGenerators(World, parserResult,
                      [currentArg |-> WithDangerous(arg, flag), searchTerm |-> searchTerm])

\* the two re-evaluations that differ in the flag only do the same
SameScheduling(arg, searchTerm) ==
    LET safe == EvaluationWith(arg, FALSE, searchTerm)
        dangerous == EvaluationWith(arg, TRUE, searchTerm)
    IN /\ Fresh(generatorStates, safe.states) = Fresh(generatorStates, dangerous.states)
       /\ Len(safe.states) = Len(dangerous.states)
       /\ \A i \in 1..Len(safe.states) :
             EraseState(safe.states[i]) = EraseState(dangerous.states[i])
       /\ Len(safe.w.requests) = Len(dangerous.w.requests)
       /\ \A r \in 1..Len(safe.w.requests) :
             EraseRequest(safe.w.requests[r]) = EraseRequest(dangerous.w.requests[r])
       /\ Len(safe.w.timers) = Len(dangerous.w.timers)
       /\ \A t \in 1..Len(safe.w.timers) :
             EraseTimer(safe.w.timers[t]) = EraseTimer(dangerous.w.timers[t])
       /\ safe.w.nextId = dangerous.w.nextId

\* C31: from any state of the store, the re-evaluation for an argument flagged
\* dangerous and the one for the same argument not flagged, with the same
\* search term, trigger the same slots, start the same requests on the same
\* back-ends, schedule the same debounce timers with the same delays, and
\* return states that differ at most in context.isDangerous.
C31_DangerousFlagDoesNotSchedule ==
    \A arg \in Args : \A searchTerm \in Terms : SameScheduling(arg, searchTerm)

\* from a store that holds the two states of the plain argument, a
\* re-evaluation of that argument triggers one slot and carries the other
\* forward, and the states it returns differ with the flag; and a
\* re-evaluation of the debounced argument schedules a timer
C31_Witness ==
    /\ parserResult.currentArg.id = ArgPlain.id
    /\ Len(generatorStates) = 2
    /\ \E searchTerm \in Terms :
          LET safe == EvaluationWith(ArgPlain, FALSE, searchTerm)
              dangerous == EvaluationWith(ArgPlain, TRUE, searchTerm)
          IN /\ Fresh(generatorStates, safe.states) # {}
             /\ Fresh(generatorStates, safe.states) # 1..2
             /\ safe.states # dangerous.states
             /\ Len(safe.w.requests) > Len(requests)
    /\ \E searchTerm \in Terms :
          Len(EvaluationWith(ArgDebounced, TRUE, searchTerm).w.timers) > Len(timers)

----------------------------------------------------------------------------
(* Back-end precedence *)

\* the slots that hold, after the step, a run started in the step
StartedInStep == {i \in 1..Len(generatorStates') : generatorStates'[i].request \in NewRequests}

\* C32: every run of a triggered generator, started by a re-evaluation or by a
\* debounce timer, makes one back-end call: each request made in a step belongs
\* to exactly one state of the store, each started state has one request, the
\* back-end called is the template back-end when the descriptor has a
\* template, else the script back-end when it has a script, else the custom
\* back-end, and the call is given that state's generator and context.
C32_OneBackendByPrecedence ==
    [][/\ \A r \in NewRequests :
             \E i \in StartedInStep :
                /\ generatorStates'[i].request = r
                /\ \A j \in StartedInStep : generatorStates'[j].request = r => j = i
          /\ \A s \in StartedInStep :
                LET state == generatorStates'[s]
                    call == requests'[state.request]
                IN /\ state.loading
                   /\ call.generator = state.generator.id
                   /\ call.context = state.context
                   /\ state.generator.template => call.backend = "template"
                   /\ (~state.generator.template /\ state.generator.script)
                          => call.backend = "script"
                   /\ (~state.generator.template /\ ~state.generator.script)
                          => call.backend = "custom"]_vars

\* the store holds runs of a descriptor with a template and a script on the
\* template back-end, of one with a script only on the script back-end and of
\* one with neither on the custom back-end
C32_Witness ==
    /\ parserResult.currentArg.id = ArgBackends.id
    /\ Len(generatorStates) = 3
    /\ \A i \in Slots : generatorStates[i].request # NoRequest
    /\ requests[generatorStates[1].request].backend = "template"
    /\ requests[generatorStates[2].request].backend = "script"
    /\ requests[generatorStates[3].request].backend = "custom"

\* a debounce timer fired and started the run of the descriptor with a
\* template and a script on the template back-end
C32_WitnessDebounced ==
    /\ last.op = "TimerFire"
    /\ last.found
    /\ \E i \in Slots :
          /\ generatorStates[i].generator = GenTemplateScript
          /\ generatorStates[i].request # NoRequest
          /\ requests[generatorStates[i].request].backend = "template"

----------------------------------------------------------------------------
(* Quiescence *)

\* every debounce callback has fired and every request has resolved
Quiet ==
    /\ timers = <<>>
    /\ \A r \in 1..Len(requests) : requests[r].status = "resolved"

\* every state of the store has finished loading, on a run of its own that
\* has resolved, and holds suggestions of its own generator
Settled ==
    \A i \in Slots :
        /\ ~generatorStates[i].loading
        /\ generatorStates[i].request \in 1..Len(requests)
        /\ requests[generatorStates[i].request].status = "resolved"
        /\ requests[generatorStates[i].request].generator = generatorStates[i].generator.id
        /\ \A k \in 1..Len(generatorStates[i].result) :
              generatorStates[i].result[k].generator = generatorStates[i].generator.id

\* a state that is not loading came into the store when its own request
\* resolved, with the suggestions the request resolved with, and is the same
\* object since
ResultIsOfOwnRun ==
    \A i \in SlotsAfter :
        ~generatorStates'[i].loading
            => \/ /\ i \in Slots
                  /\ generatorStates'[i] = generatorStates[i]
               \/ /\ last'.op = "Resolve"
                  /\ generatorStates'[i].request = last'.request
                  /\ generatorStates'[i].result =
                         Tagged(last'.value, generatorStates'[i].generator)

\* C33: quiescence, in its finite-run form.  A behaviour in which the
\* re-evaluations stop, every debounce callback fires and every request
\* resolves reaches a state with no timer and no pending request and stays
\* there; in every such state each GeneratorState of the store has
\* loading = false and holds the result of its last triggered run: the
\* suggestions its own request resolved with, unchanged since.
C33_Quiescence ==
    /\ [](Quiet => Settled)
    /\ [][ResultIsOfOwnRun]_vars

\* the two slots of the plain argument have run, the requests have all
\* resolved, the last one just now, and both slots show suggestions
C33_Witness ==
    /\ Quiet
    /\ last.op = "Resolve"
    /\ Len(generatorStates) = 2
    /\ Len(requests) >= 2
    /\ \A i \in Slots : generatorStates[i].result # <<>> /\ ~generatorStates[i].loading
    /\ generatorStates[1].request # generatorStates[2].request

\* the debounced argument's run, started by its timer, has resolved, and all
\* is quiet
C33_WitnessDebounced ==
    /\ Quiet
    /\ last.op = "Resolve"
    /\ parserResult.currentArg.id = ArgDebounced.id
    /\ Len(generatorStates) = 1
    /\ ~generatorStates[1].loading
    /\ generatorStates[1].result # <<>>

----------------------------------------------------------------------------
(* Runs carried over a re-evaluation *)

\* slot i is loading on a request that has not resolved
InFlight(i) ==
    /\ generatorStates[i].loading
    /\ generatorStates[i].request \in PendingRequests

\* C34: a re-evaluation that does not trigger a slot whose state is loading
\* with a request in flight leaves that very object in the slot, with the
\* completion callback of its request still registered for it; and when the
\* request of a state resolves while the store's search term is no longer the
\* one the state was built for, the slot takes loading = false and the
\* suggestions of that request.
C34_CarriedRunIsMerged ==
    [][/\ last'.op = "Evaluate" =>
             \A i \in Slots \cap SlotsAfter :
                 (InFlight(i) /\ i \notin last'.fresh) =>
                     /\ generatorStates'[i] = generatorStates[i]
                     /\ LET request == requests'[generatorStates'[i].request]
                        IN /\ request.status = "pending"
                           /\ \E k \in 1..Len(request.thens) :
                                 request.thens[k] = generatorStates'[i]
       /\ last'.op = "Resolve" =>
             \A i \in Slots :
                 (/\ InFlight(i)
                  /\ generatorStates[i].request = last'.request
                  /\ generatorStates[i].context.searchTerm # parserResult.searchTerm) =>
                     /\ ~generatorStates'[i].loading
                     /\ generatorStates'[i].result =
                            Tagged(last'.value, generatorStates[i].generator)
                     /\ generatorStates'[i].generator = generatorStates[i].generator]_vars

\* the run of the plain argument's first slot was started for the empty search
\* term, the user typed on without triggering that slot, and the run has now
\* resolved with suggestions that the slot shows
C34_Witness ==
    /\ last.op = "Resolve"
    /\ last.found
    /\ last.value # <<>>
    /\ parserResult.currentArg.id = ArgPlain.id
    /\ parserResult.searchTerm = TermA
    /\ generatorStates[1].context.searchTerm = TermEmpty
    /\ generatorStates[1].request = last.request
    /\ ~generatorStates[1].loading
    /\ generatorStates[1].result = Tagged(last.value, GenTemplate)

----------------------------------------------------------------------------
(* A debounced trigger over a run in flight *)

\* slot i holds a loading state made under a debounced argument: the state a
\* debounced trigger put there, or the run its timer started
DebouncedLoading(i) ==
    /\ Truthy(parserResult.currentArg.debounce)
    /\ generatorStates[i].loading

\* C35: a debounced trigger of a slot whose run is in flight puts a new
\* loading state without a request in the slot, with the result the replaced
\* state held, and from then on no completion callback of the replaced run's
\* request is bound to a state of the store.  While the slot is loading under
\* the debounced argument, a timer firing, time passing and the resolution of
\* any request other than the slot's own leave its result as it is; the slot
\* takes new suggestions only when its own request, the debounced run's,
\* resolves.
C35_DebouncedTriggerSupersedes ==
    [][/\ last'.op = "Evaluate" =>
             \A i \in Slots \cap last'.fresh :
                 (InFlight(i) /\ Truthy(parserResult'.currentArg.debounce)) =>
                     /\ generatorStates'[i].loading
                     /\ generatorStates'[i].request = NoRequest
                     /\ generatorStates'[i].result = generatorStates[i].result
                     /\ LET replaced == requests'[generatorStates[i].request]
                        IN \A k \in 1..Len(replaced.thens) :
                              ~Present(generatorStates', replaced.thens[k])
       /\ last'.op \in {"Resolve", "TimerFire", "Tick"} =>
             /\ Len(generatorStates') = Len(generatorStates)
             /\ \A i \in Slots :
                   DebouncedLoading(i) =>
                       IF last'.op = "Resolve" /\ generatorStates[i].request = last'.request
                       THEN /\ ~generatorStates'[i].loading
                            /\ generatorStates'[i].result =
                                   Tagged(last'.value, generatorStates[i].generator)
                       ELSE /\ generatorStates'[i].loading
                            /\ generatorStates'[i].result = generatorStates[i].result]_vars

\* the slot showed suggestions, a second run of it was in flight when the
\* debounced argument's trigger replaced it, and that run has now resolved
\* within the debounce window with other suggestions: the slot is loading
\* without a request, its timer pending, and shows the suggestions it had
C35_Witness ==
    /\ last.op = "Resolve"
    /\ ~last.found
    /\ last.value # <<>>
    /\ parserResult.currentArg.id = ArgSuperseding.id
    /\ requests[last.request].generator = GenChange.id
    /\ Len(generatorStates) = 1
    /\ generatorStates[1].loading
    /\ generatorStates[1].request = NoRequest
    /\ generatorStates[1].result # <<>>
    /\ generatorStates[1].result # Tagged(last.value, GenChange)
    /\ \E t \in 1..Len(timers) : timers[t].state = generatorStates[1]

\* after that, the timer fired and the debounced run resolved: the slot shows
\* the debounced run's suggestions, not those of the replaced run
C35_WitnessCompleted ==
    /\ last.op = "Resolve"
    /\ last.found
    /\ last.request = 3
    /\ parserResult.currentArg.id = ArgSuperseding.id
    /\ requests[1].status = "resolved"
    /\ requests[2].status = "resolved"
    /\ requests[2].generator = GenChange.id
    /\ ~generatorStates[1].loading
    /\ generatorStates[1].request = 3
    /\ generatorStates[1].result = Tagged(last.value, GenChange)

----------------------------------------------------------------------------
(* Completion callbacks of one request *)

\* the completion callbacks registered on the pending request of a stored
\* state: one, bound to the state, when triggerGenerators started the run at
\* once; two when a debounce timer started it, the first bound to the state
\* triggerGenerator built, which is never stored, the second to the state
\* updateGenerator stored
CallbacksOfStoredRuns ==
    \A i \in Slots :
        InFlight(i) =>
            LET thens == requests[generatorStates[i].request].thens
            IN IF Truthy(parserResult.currentArg.debounce)
               THEN /\ Len(thens) = 2
                    /\ thens[2] = generatorStates[i]
                    /\ thens[1].id # thens[2].id
                    /\ ~Present(generatorStates, thens[1])
               ELSE thens = <<generatorStates[i]>>

\* the slots a step wrote
WrittenSlots == {i \in Slots \cap SlotsAfter : generatorStates'[i] # generatorStates[i]}

\* C36: the resolution of one request writes the store at most once.  It runs
\* at most two callbacks; a new state is stored, in one slot, exactly when one
\* of them is bound to a state of the store, and then it is the last one
\* registered; every other callback finds its state gone and changes nothing.
\* In the debounced path the stored state's request carries two callbacks, of
\* which the first is bound to the state triggerGenerator built and is never
\* in the store.
C36_ResolutionWritesOnce ==
    /\ [](CallbacksOfStoredRuns)
    /\ [][last'.op = "Resolve" =>
             LET thens == requests[last'.request].thens
                 bound == {k \in 1..Len(thens) : Present(generatorStates, thens[k])}
             IN /\ Len(thens) <= 2
                /\ Cardinality(bound) <= 1
                /\ bound \subseteq {Len(thens)}
                /\ Len(generatorStates') = Len(generatorStates)
                /\ nextId' - nextId = Cardinality(bound)
                /\ Cardinality(WrittenSlots) = Cardinality(bound)
                /\ \A i \in WrittenSlots :
                      /\ generatorStates[i] = thens[Len(thens)]
                      /\ ~generatorStates'[i].loading
                      /\ generatorStates'[i].result =
                             Tagged(last'.value, generatorStates[i].generator)]_vars

\* the run the debounced argument's timer started has resolved with
\* suggestions: the slot took them once, and nothing else is outstanding
C36_Witness ==
    /\ last.op = "Resolve"
    /\ last.found
    /\ last.value # <<>>
    /\ Truthy(parserResult.currentArg.debounce)
    /\ parserResult.currentArg.generators = <<GenScript>>
    /\ generatorStates[1].request = last.request
    /\ generatorStates[1].result = Tagged(last.value, GenScript)
    /\ generatorStates[1].id = nextId - 1
    /\ requests[last.request].thens = <<>>
    /\ timers = <<>>

----------------------------------------------------------------------------
(* The list triggerGenerators returns *)

\* the list triggerGenerators returns on the store as it is
ReturnedFor(arg, searchTerm) ==
    TriggerGenerators(World, parserResult,
                      [currentArg |-> arg, searchTerm |-> searchTerm]).states

\* C37: on every state of the store and for every argument and search term,
\* the list triggerGenerators returns has one GeneratorState per generator of
\* the argument, the state at position i holding the argument's i-th
\* generator, for the slots carried forward as for the new ones; it is the
\* empty list when there is no current argument and when the argument has no
\* generators.
C37_OneStatePerGeneratorInOrder ==
    \A arg \in Args \cup {ArgNoGenerators} : \A searchTerm \in Terms :
        LET states == ReturnedFor(arg, searchTerm)
        IN /\ Len(states) = Len(arg.generators)
           /\ \A i \in 1..Len(arg.generators) : states[i].generator = arg.generators[i]
           /\ arg.generators = <<>> => states = <<>>

\* the store holds the two states of the plain argument, and a re-evaluation
\* of that argument returns a list whose first state is the one in the store
\* and whose second is new; re-evaluations with no argument and with an
\* argument without generators return the empty list
C37_Witness ==
    /\ parserResult.currentArg.id = ArgPlain.id
    /\ Len(generatorStates) = 2
    /\ \E searchTerm \in Terms :
          LET states == ReturnedFor(ArgPlain, searchTerm)
          IN /\ Fresh(generatorStates, states) = {2}
             /\ states[1] = generatorStates[1]
             /\ states[1].generator = GenTemplate
             /\ states[2].generator = GenCustom
    /\ ReturnedFor(NoArg, TermA) = <<>>
    /\ ReturnedFor(ArgNoGenerators, TermA) = <<>>

----------------------------------------------------------------------------
(* The cache registry over sequences of calls *)

\* the entries the registry holds: cache (by place), key
Entries(caches) ==
    {<<i, key>> \in (1..Len(caches)) \X CacheKeys : caches[i][key] # NoEntry}

\* resetCaches() run twice gives what resetCaches() run once gives
ResetCachesIdempotent ==
    ResetCachesIn(ResetCachesIn(allCaches)) = ResetCachesIn(allCaches)

\* C38: over createCache, insertions and resetCaches in any order, every
\* cache of the registry stays registered at its place, and a resetCaches
\* leaves each of them empty; a step other than resetCaches removes no entry,
\* an insertion changing at most the one entry it writes and createCache none;
\* and resetCaches called right after resetCaches changes nothing, as running
\* it twice on any registry gives what running it once gives.
C38_RegistryAlgebra ==
    /\ [](ResetCachesIdempotent)
    /\ [][/\ Len(allCaches') >= Len(allCaches)
          /\ last'.op = "ResetCaches" =>
                /\ Len(allCaches') = Len(allCaches)
                /\ Entries(allCaches') = {}
          /\ last'.op = "CreateCache" =>
                \A i \in 1..Len(allCaches) : allCaches'[i] = allCaches[i]
          /\ last'.op = "CacheSet" =>
                /\ Len(allCaches') = Len(allCaches)
                /\ Entries(allCaches) \subseteq Entries(allCaches')
                /\ Cardinality({e \in Entries(allCaches') :
                                   allCaches'[e[1]][e[2]] # allCaches[e[1]][e[2]]}) <= 1
          /\ (last.op = "ResetCaches" /\ last'.op = "ResetCaches") =>
                allCaches' = allCaches]_vars

\* resetCaches() ran on a registry of four caches, the two of the module and
\* two created later, some of them holding entries: the four are registered
\* and empty
C38_Witness ==
    /\ last.op = "ResetCaches"
    /\ last.found
    /\ Len(allCaches) = 4
    /\ Entries(allCaches) = {}

\* entries are kept over a createCache: the registry has grown to four caches
\* and three entries written before are there, in caches created at different
\* times
C38_WitnessEntriesStay ==
    /\ last.op = "CreateCache"
    /\ last.found
    /\ Len(allCaches) = 4
    /\ {<<1, "k1">>, <<2, "k2">>, <<3, "k1">>} \subseteq Entries(allCaches)

----------------------------------------------------------------------------
(* The context of a re-evaluation *)

\* the elements of seq from the 0-based position index onward, one by one
FromIndexOnward(out, seq, index) ==
    /\ Len(out) = Max({Len(seq) - index, 0})
    /\ \A k \in 1..Len(out) : out[k] = seq[index + k]

\* C39: the context getGeneratorContext builds from the store's state and the
\* parser result of a re-evaluation has as tokenArray the texts of the command's
\* tokens from commandIndex onward, in their order, and no token when there is
\* no command; as annotations the parser's annotations from commandIndex
\* onward; as searchTerm the parser result's search term; as working directory
\* and process name those of the shell state, the empty string for a missing
\* one; and the shell state's environment variables as they are.
C39_ContextContents ==
    last.op = "GetGeneratorContext" =>
        LET state == last.raw
            context == last.value
            index == state.parserResult.commandIndex
            tokens == IF state.command.defined THEN state.command.tokens ELSE <<>>
        IN /\ FromIndexOnward(context.tokenArray,
                              [k \in 1..Len(tokens) |-> tokens[k].text], index)
           /\ ~state.command.defined => context.tokenArray = <<>>
           /\ FromIndexOnward(context.annotations, state.parserResult.annotations, index)
           /\ context.searchTerm = state.parserResult.searchTerm
           /\ context.currentWorkingDirectory =
                  (IF state.figState.cwd = Undefined THEN "" ELSE state.figState.cwd)
           /\ context.currentProcess =
                  (IF state.figState.processUserIsIn = Undefined THEN ""
                   ELSE state.figState.processUserIsIn)
           /\ context.environmentVariables = state.figState.environmentVariables

\* the context of "git commit -m" completed from its second token, in a shell
\* that reported its process but no working directory
C39_Witness ==
    /\ last.op = "GetGeneratorContext"
    /\ last.raw.command = Command(Tokens(3))
    /\ last.raw.parserResult.commandIndex = 1
    /\ last.raw.parserResult.annotations = Annotations(3)
    /\ last.raw.parserResult.searchTerm = TermA
    /\ last.raw.figState.cwd = Undefined
    /\ last.raw.figState.processUserIsIn = "zsh"
    /\ last.value.tokenArray = <<"commit", "-m">>
    /\ last.value.annotations = <<AnnotationAt(2), AnnotationAt(3)>>
    /\ last.value.searchTerm = TermA
    /\ last.value.currentWorkingDirectory = ""
    /\ last.value.currentProcess = "zsh"

\* the context without a command: no token, whatever the command index
C39_WitnessNoCommand ==
    /\ last.op = "GetGeneratorContext"
    /\ ~last.raw.command.defined
    /\ last.raw.parserResult.commandIndex = 0
    /\ last.value.tokenArray = <<>>
    /\ last.value.annotations = Annotations(2)

\* the fields of the context the scheduler's states carry are those of the
\* whole context
ContextFieldsAgree ==
    last.op = "GetGeneratorContext" =>
        LET pr == last.raw.parserResult
            context == GetGeneratorContext([currentArg |-> pr.currentArg,
                                            searchTerm |-> pr.searchTerm])
        IN /\ context.isDangerous = last.value.isDangerous
           /\ context.searchTerm = last.value.searchTerm

====
